---------------------------- MODULE Spec2Model ----------------------------
(***************************************************************************)
(* Model of the market-data synchronisation service                        *)
(* (app/google_adk_integration/services/market_data_sync.py) and of the    *)
(* three tables it writes (app/google_adk_integration/database/models.py). *)
(*                                                                         *)
(* One invocation of sync_latest_data is a walk of pc through the steps of *)
(* the coroutine; the upstream feed and the database faults are the        *)
(* environment and are chosen nondeterministically.                        *)
(***************************************************************************)
EXTENDS Integers, Sequences, FiniteSets, TLC

(***************************************************************************)
(* Bounds of the model.                                                    *)
(***************************************************************************)
\* invocations of sync_latest_data in one behaviour
MaxRuns == 2
\* raw records the upstream feed serves in one behaviour
MaxRecords == 2
\* records in one non-empty page of the feed
MaxPageLen == 1
\* failing feed requests and database errors in one behaviour
MaxFaults == 2
\* days the clock may advance in one behaviour
MaxClockAdvance == 1

(***************************************************************************)
(* Program constants.                                                      *)
(***************************************************************************)
\* _full_sync: start_date = end_date - timedelta(days=7)
FullSyncDays == 7
\* _calculate_trends: arrival_date >= now - timedelta(days=7)
TrendWindowDays == 7
\* _generate_analytics: arrival_date >= now - timedelta(days=30)
AnalyticsWindowDays == 30
\* _fetch_api_data(..., limit=1000)
PageLimit == 1000
\* the day number of datetime.now() at the first invocation: late enough for
\* the whole full-sync window to lie in the calendar below
FirstDay == FullSyncDays + 2

(***************************************************************************)
(* Python values.  A float is a record so that NaN, which float() accepts, *)
(* has a place: every comparison with NaN is false.                        *)
(***************************************************************************)
F(n) == [nan |-> FALSE, v |-> n]
NaN == [nan |-> TRUE, v |-> 0]
FGt(a, b) == ~a.nan /\ ~b.nan /\ a.v > b.v
FLt(a, b) == ~a.nan /\ ~b.nan /\ a.v < b.v
FLe(a, b) == ~a.nan /\ ~b.nan /\ a.v <= b.v
FGe(a, b) == ~a.nan /\ ~b.nan /\ a.v >= b.v
FSub(a, b) == IF a.nan \/ b.nan THEN NaN ELSE F(a.v - b.v)

\* a key the raw dictionary does not hold, and JSON null
Absent == "<absent>"
None == "<None>"

\* dict.get(key): None for a key that is absent
Get(record, key) == IF record[key] = Absent THEN None ELSE record[key]
\* dict.get(key, default)
GetOr(record, key, default) == IF record[key] = Absent THEN default ELSE record[key]
\* truthiness of None and of a string
Truthy(s) == s # None /\ s # ""

\* str.strip() on the strings of the model
StripTable ==
    (" " :> "") @@ (" Wheat " :> "Wheat") @@ ("Khanna " :> "Khanna")
strip(s) == IF s \in DOMAIN StripTable THEN StripTable[s] ELSE s

\* float(s) on the strings of the model: the decimal numerals, "nan", and
\* everything else a ValueError
NumeralValue ==
    ("0" :> 0) @@ ("-5" :> -5) @@ ("90" :> 90) @@ ("95" :> 95) @@
    ("97" :> 97) @@ ("100" :> 100) @@ ("103" :> 103) @@ ("110" :> 110) @@
    ("98" :> 98) @@ ("101" :> 101) @@ ("102" :> 102) @@
    ("2000" :> 2000) @@ ("2050" :> 2050) @@ ("2100" :> 2100)
FloatParses(s) == s \in DOMAIN NumeralValue \/ s = "nan"
float(s) == IF s = "nan" THEN NaN ELSE F(NumeralValue[s])

\* the calendar: day number d is written DateStrings[d] in "%d-%m-%Y"
DateStrings ==
    << "01-11-2026", "02-11-2026", "03-11-2026", "04-11-2026", "05-11-2026",
       "06-11-2026", "07-11-2026", "08-11-2026", "09-11-2026", "10-11-2026",
       "11-11-2026", "12-11-2026" >>
strftime(d) == DateStrings[d]
StrptimeParses(s) == \E d \in DOMAIN DateStrings : DateStrings[d] = s
strptime(s) == CHOOSE d \in DOMAIN DateStrings : DateStrings[d] = s

(***************************************************************************)
(* The upstream feed.  A raw record carries every field as a string; the   *)
(* catalog holds the records the feed may serve: a well-formed one, a      *)
(* re-quote of the same identity written with padding, an older quote,    *)
(* records with a zero or NaN modal price or a blank state, a quote of the *)
(* same day from a second market, and a quote with a negative min_price.   *)
(***************************************************************************)
Raw(st, ma, co, gr, da, mn, mx, mo) ==
    [ state |-> st, district |-> "Ludhiana", market |-> ma, commodity |-> co,
      variety |-> "Desi", grade |-> gr, arrival_date |-> da,
      min_price |-> mn, max_price |-> mx, modal_price |-> mo ]

Today0 == strftime(FirstDay)
Yesterday0 == strftime(FirstDay - 1)

Catalog ==
    { Raw("Punjab", "Khanna", "Wheat", "FAQ", Today0, "90", "110", "100"),
      Raw("Punjab", "Khanna ", " Wheat ", Absent, Today0, "95", "110", "103"),
      Raw("Punjab", "Khanna", "Wheat", "FAQ", Yesterday0, "90", "110", "97"),
      Raw("Punjab", "Khanna", "Wheat", "FAQ", Today0, "90", "110", "0"),
      Raw("Punjab", "Khanna", "Rice", "FAQ", Today0, "-5", "110", "nan"),
      Raw(" ", "Khanna", "Wheat", "FAQ", Today0, "90", "110", "100"),
      Raw("Punjab", "Sahnewal", "Wheat", "FAQ", Today0, "90", "110", "97"),
      Raw("Punjab", "Khanna", "Maize", "FAQ", Today0, "-5", "110", "100") }

(***************************************************************************)
(* _clean_record.  The result is << >> for None and << cleaned >> for a    *)
(* dictionary.  Every exception raised inside is caught and gives None.    *)
(***************************************************************************)
\* float(record.get(key, 0) or 0) raises no ValueError
PriceParses(record, key) ==
    ~Truthy(Get(record, key)) \/ FloatParses(record[key])
\* float(record.get(key, 0) or 0)
PriceValue(record, key) ==
    IF ~Truthy(Get(record, key)) THEN F(0) ELSE float(record[key])

\* all([record.get('state'), record.get('district'), record.get('market'),
\*      record.get('commodity')])
EssentialFields(record) ==
    /\ Truthy(Get(record, "state"))
    /\ Truthy(Get(record, "district"))
    /\ Truthy(Get(record, "market"))
    /\ Truthy(Get(record, "commodity"))

\* modal_price <= 0
ModalRejected(modal_price) == FLe(modal_price, F(0))

_clean_record(record) ==
    IF \/ record["arrival_date"] \in {Absent, None}
       \/ ~StrptimeParses(record["arrival_date"])
    THEN << >>
    ELSE IF \E k \in {"min_price", "max_price", "modal_price"} :
                ~PriceParses(record, k)
    THEN << >>
    ELSE IF ~EssentialFields(record)
    THEN << >>
    ELSE IF ModalRejected(PriceValue(record, "modal_price"))
    THEN << >>
    ELSE IF GetOr(record, "variety", "") = None \/ GetOr(record, "grade", "") = None
    THEN << >>
    ELSE << [ state |-> strip(record["state"]),
              district |-> strip(record["district"]),
              market |-> strip(record["market"]),
              commodity |-> strip(record["commodity"]),
              variety |-> strip(GetOr(record, "variety", "")),
              grade |-> strip(GetOr(record, "grade", "")),
              arrival_date |-> strptime(record["arrival_date"]),
              min_price |-> PriceValue(record, "min_price"),
              max_price |-> PriceValue(record, "max_price"),
              modal_price |-> PriceValue(record, "modal_price") ] >>

(***************************************************************************)
(* State.                                                                  *)
(***************************************************************************)
VARIABLES
    \* the tables, as the session of the running invocation sees them
    prices,          \* market_prices: rows in primary-key order
    analytics,       \* market_analytics
    syncLog,         \* data_sync_log
    \* the clock: the day number of datetime.now()
    today,
    \* sync_latest_data
    pc,              \* the step the invocation is at; "idle" between invocations
    runs,            \* invocations started so far
    force_full_sync,
    sync_type,
    exc,             \* the exception in flight, "" when there is none
    outcome,         \* what the last invocation gave its caller
    \* _full_sync / _incremental_sync
    dayIdx,          \* current_date = start_date + dayIdx days
    all_records,     \* the records handed to _process_records
    processed,
    \* _fetch_api_data
    date_filter,
    fetch_records,   \* its local all_records
    offset,
    fetched,         \* how the call ended: "none", "raise" or "return"
    \* _process_records
    i,               \* index of the next record of the loop
    inserted,
    updated,
    \* history, read by the properties only
    served,          \* records the feed has served in this behaviour
    faults,          \* request failures and database errors so far
    requested,       \* the date filters of this run's fetches, in order
    fetchErrors,     \* fetches of this run that raised
    feedPages,       \* the pages the feed served to the running fetch
    feedFailed,      \* the running fetch met a failing request
    delivered,       \* the records the feed gave to this run's fetches that returned
    logAtStart,      \* Len(syncLog) when the invocation started
    rowsAtStart,     \* Len(prices) when the invocation started
    upserts,         \* the upserts of this run: the cleaned record, the result,
                     \* the rows of its identity before, the row after
    \* the database under the session
    committedPrices, \* market_prices as of the last commit
    pending,         \* upserts of the session since its last commit
    \* two sessions that upsert side by side (SpecConcurrent)
    wpc,             \* per session: "query", "write" or "done"
    wrec,            \* per session: the cleaned record it upserts
    wfound,          \* per session: what its existence query returned
    \* the argument and the result of a function applied on its own
    fin,
    fout

tables == << prices, analytics, syncLog >>
runLocals == << force_full_sync, sync_type, rowsAtStart >>
syncLocals == << dayIdx, all_records, processed >>
fetchLocals == << date_filter, fetch_records, offset, fetched >>
processLocals == << i, inserted, updated >>
feedHistory ==
    << served, requested, fetchErrors, feedPages, feedFailed, delivered >>
durable == << committedPrices, pending >>
runState ==
    << tables, today, pc, runs, runLocals, exc, outcome, syncLocals,
       fetchLocals, processLocals, feedHistory, faults, logAtStart, upserts,
       durable >>
offRun == << wpc, wrec, wfound, fin, fout >>
vars ==
    << prices, analytics, syncLog, today, pc, runs, force_full_sync,
       sync_type, exc, outcome, dayIdx, all_records, processed, date_filter,
       fetch_records, offset, fetched, i, inserted, updated, served, faults,
       requested, fetchErrors, feedPages, feedFailed, delivered, logAtStart,
       upserts, committedPrices, pending, wpc, wrec, wfound, fin, fout,
       rowsAtStart >>

NoOutcome == [kind |-> "none", exc |-> "", result |-> << >>]

\* the service is constructed, the store is empty
InitRun ==
    /\ prices = << >>
    /\ analytics = << >>
    /\ syncLog = << >>
    /\ today = FirstDay
    /\ pc = "idle"
    /\ runs = 0
    /\ force_full_sync = FALSE
    /\ sync_type = "none"
    /\ exc = ""
    /\ outcome = NoOutcome
    /\ dayIdx = 0
    /\ all_records = << >>
    /\ processed = 0
    /\ date_filter = ""
    /\ fetch_records = << >>
    /\ offset = 0
    /\ fetched = "none"
    /\ i = 1
    /\ inserted = 0
    /\ updated = 0
    /\ served = 0
    /\ faults = 0
    /\ requested = << >>
    /\ fetchErrors = 0
    /\ feedPages = << >>
    /\ feedFailed = FALSE
    /\ delivered = << >>
    /\ logAtStart = 0
    /\ rowsAtStart = 0
    /\ upserts = << >>
    /\ committedPrices = << >>
    /\ pending = 0

\* no second session, no function applied on its own
InitOffRun ==
    /\ wpc = << >>
    /\ wrec = << >>
    /\ wfound = << >>
    /\ fin = << >>
    /\ fout = << >>

Init == InitRun /\ InitOffRun

(***************************************************************************)
(* sync_latest_data: the choice of mode.                                   *)
(***************************************************************************)
\* variant: the query without its status filter
last_sync_anyStatus(log) == DOMAIN log

\* db.query(DataSyncLog).filter(DataSyncLog.status == 'success')...first()
last_sync(log) == { k \in DOMAIN log : log[k].status = "success" }

\* 'full' if not last_sync or force_full_sync else 'incremental'
SyncType(log, force) ==
    IF last_sync(log) = {} \/ force THEN "full" ELSE "incremental"

\* an invocation starts; the clock may have moved on since the last one
StartRun ==
    /\ pc = "idle"
    /\ runs < MaxRuns
    /\ \E force \in BOOLEAN, adv \in {0, 1} :
        /\ today + adv <= FirstDay + MaxClockAdvance
        /\ today' = today + adv
        /\ force_full_sync' = force
        /\ sync_type' = SyncType(syncLog, force)
        /\ pc' = IF SyncType(syncLog, force) = "full"
                 THEN "full_sync" ELSE "incremental_sync"
    /\ runs' = runs + 1
    /\ exc' = ""
    /\ outcome' = NoOutcome
    /\ dayIdx' = 0
    /\ all_records' = << >>
    /\ processed' = 0
    /\ date_filter' = ""
    /\ fetch_records' = << >>
    /\ offset' = 0
    /\ fetched' = "none"
    /\ i' = 1
    /\ inserted' = 0
    /\ updated' = 0
    /\ requested' = << >>
    /\ fetchErrors' = 0
    /\ feedPages' = << >>
    /\ feedFailed' = FALSE
    /\ delivered' = << >>
    /\ logAtStart' = Len(syncLog)
    /\ rowsAtStart' = Len(prices)
    /\ upserts' = << >>
    /\ pending' = 0
    /\ UNCHANGED << committedPrices, offRun, tables, served, faults >>

(***************************************************************************)
(* _fetch_api_data: one action per page request.                           *)
(***************************************************************************)
\* the call _fetch_api_data(date_filter=d)
CallFetch(d) ==
    /\ date_filter' = d
    /\ fetch_records' = << >>
    /\ offset' = 0
    /\ fetched' = "none"
    /\ requested' = Append(requested, d)
    /\ feedPages' = << >>
    /\ feedFailed' = FALSE
    /\ pc' = "fetch"

\* the non-empty pages the feed may answer a request for the date d with:
\* filters[arrival_date] makes it serve records of that arrival date only
Pages(d) ==
    UNION { [1..n -> { r \in Catalog : r.arrival_date = d }] :
              n \in 1..MaxPageLen }

\* the records of a sequence of pages, in order
RECURSIVE Flatten(_)
Flatten(pages) ==
    IF pages = << >> THEN << >> ELSE Head(pages) \o Flatten(Tail(pages))

\* variant: the offset stays where it is after a page
FetchPage_sameOffset ==
    /\ pc = "fetch"
    /\ \E page \in Pages(date_filter) :
        /\ served + Len(page) <= MaxRecords
        /\ fetch_records' = fetch_records \o page
        /\ feedPages' = Append(feedPages, page)
        /\ served' = served + Len(page)
    /\ UNCHANGED << durable, offRun, tables, today, pc, runs, runLocals, exc, outcome,
                    syncLocals, date_filter, offset, fetched, processLocals, faults,
                    requested, fetchErrors, feedFailed, delivered, logAtStart,
                    upserts >>

\* the request succeeds with a non-empty page
FetchPage ==
    /\ pc = "fetch"
    /\ \E page \in Pages(date_filter) :
        /\ served + Len(page) <= MaxRecords
        /\ fetch_records' = fetch_records \o page
        /\ feedPages' = Append(feedPages, page)
        /\ served' = served + Len(page)
    /\ offset' = offset + PageLimit
    /\ UNCHANGED << durable, offRun, tables, today, pc, runs, runLocals, exc, outcome,
                    syncLocals, date_filter, fetched, processLocals, faults,
                    requested, fetchErrors, feedFailed, delivered, logAtStart,
                    upserts >>

\* the request succeeds with no records: break, return all_records
FetchEmptyPage ==
    /\ pc = "fetch"
    /\ fetched' = "return"
    /\ delivered' = delivered \o Flatten(feedPages)
    /\ pc' = "fetch_done"
    /\ UNCHANGED << durable, offRun, tables, today, runs, runLocals, exc, outcome, syncLocals,
                    date_filter, fetch_records, offset, processLocals,
                    served, faults, requested, fetchErrors, feedPages,
                    feedFailed, logAtStart, upserts >>

\* self.max_retries = 3, which _fetch_api_data does not read
max_retries == 3

\* variant: a failed request always raises
FetchFailureRaises_always(collected) == TRUE

\* on a failed request: raise when nothing was collected, else break
FetchFailureRaises(collected) == Len(collected) = 0

\* the request raises (timeout, transport error, HTTP error status)
FetchPageFails ==
    /\ pc = "fetch"
    /\ faults < MaxFaults
    /\ faults' = faults + 1
    /\ feedFailed' = TRUE
    /\ IF FetchFailureRaises(fetch_records)
       THEN /\ fetched' = "raise"
            /\ exc' = "API request failed"
            /\ delivered' = delivered
       ELSE /\ fetched' = "return"
            /\ exc' = exc
            /\ delivered' = delivered \o Flatten(feedPages)
    /\ pc' = "fetch_done"
    /\ UNCHANGED << durable, offRun, tables, today, runs, runLocals, outcome, syncLocals,
                    date_filter, fetch_records, offset, processLocals,
                    served, requested, fetchErrors, feedPages, logAtStart,
                    upserts >>

(***************************************************************************)
(* _full_sync and _incremental_sync: the fetch phase.                      *)
(***************************************************************************)
\* while current_date <= end_date, with start_date = end_date - 7 days
WindowHasDate(idx) == idx <= FullSyncDays

\* the loop of _full_sync is at its test
FullSyncLoop ==
    /\ pc = "full_sync"
    /\ IF WindowHasDate(dayIdx)
       THEN /\ CallFetch(strftime(today - FullSyncDays + dayIdx))
            /\ UNCHANGED << i >>
       ELSE /\ pc' = "process"
            /\ i' = 1
            /\ UNCHANGED << fetchLocals, requested, feedPages, feedFailed >>
    /\ UNCHANGED << durable, offRun, tables, today, runs, runLocals, exc, outcome, syncLocals,
                    inserted, updated, served, faults, fetchErrors, delivered,
                    logAtStart, upserts >>

\* variant: a date whose fetch raised ends the walk of the window
FullSyncFetched_abortOnError ==
    /\ pc = "fetch_done"
    /\ sync_type = "full"
    /\ IF fetched = "raise"
       THEN /\ fetchErrors' = fetchErrors + 1
            /\ dayIdx' = FullSyncDays + 1
            /\ UNCHANGED << all_records, processed >>
       ELSE /\ all_records' = all_records \o fetch_records
            /\ processed' = processed + Len(fetch_records)
            /\ dayIdx' = dayIdx + 1
            /\ UNCHANGED << fetchErrors >>
    /\ exc' = ""
    /\ pc' = "full_sync"
    /\ UNCHANGED << durable, offRun, tables, today, runs, runLocals, outcome, fetchLocals,
                    processLocals, served, faults, requested, feedPages,
                    feedFailed, delivered, logAtStart, upserts >>

\* the fetch of one date came back: extend, or except: log a warning
FullSyncFetched ==
    /\ pc = "fetch_done"
    /\ sync_type = "full"
    /\ IF fetched = "raise"
       THEN /\ fetchErrors' = fetchErrors + 1
            /\ UNCHANGED << all_records, processed >>
       ELSE /\ all_records' = all_records \o fetch_records
            /\ processed' = processed + Len(fetch_records)
            /\ UNCHANGED << fetchErrors >>
    /\ exc' = ""
    /\ dayIdx' = dayIdx + 1
    /\ pc' = "full_sync"
    /\ UNCHANGED << durable, offRun, tables, today, runs, runLocals, outcome, fetchLocals,
                    processLocals, served, faults, requested, feedPages,
                    feedFailed, delivered, logAtStart, upserts >>

\* _incremental_sync calls the fetch of today
IncrementalSyncStart ==
    /\ pc = "incremental_sync"
    /\ CallFetch(strftime(today))
    /\ UNCHANGED << durable, offRun, tables, today, runs, runLocals, exc, outcome, syncLocals,
                    processLocals, served, faults, fetchErrors, delivered,
                    logAtStart, upserts >>

\* the fetch of today came back: process, or except: log an error and raise
IncrementalSyncFetched ==
    /\ pc = "fetch_done"
    /\ sync_type = "incremental"
    /\ IF fetched = "raise"
       THEN /\ fetchErrors' = fetchErrors + 1
            /\ pc' = "except"
            /\ UNCHANGED << all_records, processed, i >>
       ELSE /\ all_records' = fetch_records
            /\ processed' = Len(fetch_records)
            /\ pc' = "process"
            /\ i' = 1
            /\ UNCHANGED << fetchErrors >>
    /\ UNCHANGED << durable, offRun, tables, today, runs, runLocals, exc, outcome, dayIdx,
                    fetchLocals, inserted, updated, served, faults,
                    requested, feedPages, feedFailed, delivered, logAtStart,
                    upserts >>

(***************************************************************************)
(* _process_records: one action per record of the loop.                    *)
(***************************************************************************)
\* variant: the filter also compares the modal price
SameIdentity_withPrice(row, cleaned) ==
    /\ row.state = cleaned.state
    /\ row.district = cleaned.district
    /\ row.market = cleaned.market
    /\ row.commodity = cleaned.commodity
    /\ row.arrival_date = cleaned.arrival_date
    /\ row.modal_price = cleaned.modal_price

\* the filter of the existence query
SameIdentity(row, cleaned) ==
    /\ row.state = cleaned.state
    /\ row.district = cleaned.district
    /\ row.market = cleaned.market
    /\ row.commodity = cleaned.commodity
    /\ row.arrival_date = cleaned.arrival_date

\* the rows the existence query selects
Existing(table, cleaned) ==
    { k \in DOMAIN table : SameIdentity(table[k], cleaned) }

\* variant: the update also puts the trend fields back to their defaults
UpdatedRow_resetTrend(row, cleaned) ==
    [ row EXCEPT !.state = cleaned.state,
                 !.district = cleaned.district,
                 !.market = cleaned.market,
                 !.commodity = cleaned.commodity,
                 !.variety = cleaned.variety,
                 !.grade = cleaned.grade,
                 !.arrival_date = cleaned.arrival_date,
                 !.min_price = cleaned.min_price,
                 !.max_price = cleaned.max_price,
                 !.modal_price = cleaned.modal_price,
                 !.price_change = F(0),
                 !.percentage_change = F(0),
                 !.trend = "stable",
                 !.updated_at = today ]

\* for key, value in cleaned_record.items(): setattr(existing, key, value);
\* existing.updated_at = datetime.now()
UpdatedRow(row, cleaned) ==
    [ row EXCEPT !.state = cleaned.state,
                 !.district = cleaned.district,
                 !.market = cleaned.market,
                 !.commodity = cleaned.commodity,
                 !.variety = cleaned.variety,
                 !.grade = cleaned.grade,
                 !.arrival_date = cleaned.arrival_date,
                 !.min_price = cleaned.min_price,
                 !.max_price = cleaned.max_price,
                 !.modal_price = cleaned.modal_price,
                 !.updated_at = today ]

\* variant: the insert writes min_price and max_price the wrong way round
NewRow_swappedMinMax(cleaned) ==
    [ state |-> cleaned.state,
      district |-> cleaned.district,
      market |-> cleaned.market,
      commodity |-> cleaned.commodity,
      variety |-> cleaned.variety,
      grade |-> cleaned.grade,
      arrival_date |-> cleaned.arrival_date,
      min_price |-> cleaned.max_price,
      max_price |-> cleaned.min_price,
      modal_price |-> cleaned.modal_price,
      price_change |-> F(0),
      percentage_change |-> F(0),
      trend |-> "stable",
      created_at |-> today,
      updated_at |-> today,
      is_active |-> TRUE ]

\* MarketPrice(**cleaned_record), with the column defaults of the model.
\* created_at and updated_at are held as the day of the clock, which does
\* not tell datetime.utcnow of the defaults from datetime.now
NewRow(cleaned) ==
    [ state |-> cleaned.state,
      district |-> cleaned.district,
      market |-> cleaned.market,
      commodity |-> cleaned.commodity,
      variety |-> cleaned.variety,
      grade |-> cleaned.grade,
      arrival_date |-> cleaned.arrival_date,
      min_price |-> cleaned.min_price,
      max_price |-> cleaned.max_price,
      modal_price |-> cleaned.modal_price,
      price_change |-> F(0),
      percentage_change |-> F(0),
      trend |-> "stable",
      created_at |-> today,
      updated_at |-> today,
      is_active |-> TRUE ]

\* if (inserted + updated) % 100 == 0
BatchSize == 100

\* variant: the test for the commit never fires
CommitDue_never(count) == FALSE

CommitDue(count) == count % BatchSize = 0

\* the record at index i is cleaned and, when it is valid, looked up and
\* updated or inserted, and counted
UpsertRecord ==
    LET cleaned_record == _clean_record(all_records[i]) IN
    IF cleaned_record = << >>
    THEN UNCHANGED << prices, inserted, updated, upserts >>
    ELSE LET cleaned == cleaned_record[1]
             existing == Existing(prices, cleaned)
         IN IF existing # {}
            THEN \E k \in existing :
                 /\ prices' = [prices EXCEPT ![k] = UpdatedRow(@, cleaned)]
                 /\ updated' = updated + 1
                 /\ upserts' = Append(upserts,
                        [ cleaned |-> cleaned, result |-> "updated",
                          before |-> Cardinality(existing),
                          row |-> UpdatedRow(prices[k], cleaned) ])
                 /\ UNCHANGED inserted
            ELSE /\ prices' = Append(prices, NewRow(cleaned))
                 /\ inserted' = inserted + 1
                 /\ upserts' = Append(upserts,
                        [ cleaned |-> cleaned, result |-> "inserted",
                          before |-> 0,
                          row |-> NewRow(cleaned) ])
                 /\ UNCHANGED updated

\* the body of the loop for the record at index i; a record that is not
\* upserted leaves the loop body by continue, before the test for the commit
ProcessRecord ==
    /\ pc = "process"
    /\ i <= Len(all_records)
    /\ UpsertRecord
    /\ IF _clean_record(all_records[i]) # << >> /\ CommitDue(inserted' + updated')
       THEN /\ committedPrices' = prices'
            /\ pending' = 0
       ELSE /\ committedPrices' = committedPrices
            /\ pending' = IF _clean_record(all_records[i]) = << >>
                          THEN pending ELSE pending + 1
    /\ i' = i + 1
    /\ UNCHANGED << offRun, analytics, syncLog, today, pc, runs, runLocals, exc,
                    outcome, syncLocals, fetchLocals, feedHistory, faults,
                    logAtStart >>

\* the existence query for the record at index i raises a database error:
\* except Exception: log a warning, continue
ProcessRecordQueryRaises ==
    /\ pc = "process"
    /\ i <= Len(all_records)
    /\ _clean_record(all_records[i]) # << >>
    /\ faults < MaxFaults
    /\ faults' = faults + 1
    /\ i' = i + 1
    /\ UNCHANGED << durable, offRun, tables, today, pc, runs, runLocals, exc,
                    outcome, syncLocals, fetchLocals, inserted, updated,
                    feedHistory, logAtStart, upserts >>

\* the record at index i is upserted and counted, the commit that is due
\* after it raises a database error: except Exception: log a warning,
\* continue.  Nothing is committed, and what the session holds afterwards
\* is the library's matter: either it still holds the upserts of the batch,
\* or it has rolled them back and sees the table as last committed.
ProcessRecordCommitRaises ==
    /\ pc = "process"
    /\ i <= Len(all_records)
    /\ _clean_record(all_records[i]) # << >>
    /\ CommitDue(inserted + updated + 1)
    /\ faults < MaxFaults
    /\ \/ /\ UpsertRecord
          /\ pending' = pending + 1
       \/ LET cleaned == _clean_record(all_records[i])[1]
              existing == Existing(prices, cleaned)
          IN /\ prices' = committedPrices
             /\ pending' = 0
             /\ inserted' = IF existing = {} THEN inserted + 1 ELSE inserted
             /\ updated' = IF existing = {} THEN updated ELSE updated + 1
             /\ upserts' = Append(upserts,
                    [ cleaned |-> cleaned,
                      result |-> IF existing = {} THEN "inserted" ELSE "updated",
                      before |-> Cardinality(existing),
                      row |-> IF existing = {} THEN NewRow(cleaned)
                              ELSE UpdatedRow(prices[CHOOSE k \in existing : TRUE],
                                              cleaned) ])
    /\ faults' = faults + 1
    /\ i' = i + 1
    /\ UNCHANGED << committedPrices, offRun, analytics, syncLog, today, pc,
                    runs, runLocals, exc, outcome, syncLocals, fetchLocals,
                    feedHistory, logAtStart >>

\* the loop is over: _calculate_trends is called
ProcessDone ==
    /\ pc = "process"
    /\ i > Len(all_records)
    /\ pc' = "trends"
    /\ UNCHANGED << durable, offRun, tables, today, runs, runLocals, exc, outcome, syncLocals,
                    fetchLocals, processLocals, feedHistory, faults,
                    logAtStart, upserts >>

(***************************************************************************)
(* _calculate_trends.                                                      *)
(***************************************************************************)
\* arrival_date >= datetime.now() - timedelta(days=n): arrival dates are
\* midnights and now is later in its day than midnight
InWindow(arrival_date, n) == arrival_date >= today - n + 1

\* the orders order_by(arrival_date.desc()) may return the rows in: the
\* order of rows of one date is the database's choice
DateDescOrders(table) ==
    { ord \in [DOMAIN table -> DOMAIN table] :
        /\ \A p, q \in DOMAIN table : p # q => ord[p] # ord[q]
        /\ \A p, q \in DOMAIN table :
              p < q => table[ord[p]].arrival_date >= table[ord[q]].arrival_date }

\* recent_data[i + 1] for the row k = recent_data[i], 0 when k is the last
\* row of its commodity's recent_data or is not in it
NextInRecentData(table, ord, k) ==
    LET pos == CHOOSE p \in DOMAIN table : ord[p] = k
        later == { q \in DOMAIN table :
                     /\ q > pos
                     /\ table[ord[q]].commodity = table[k].commodity
                     /\ InWindow(table[ord[q]].arrival_date, TrendWindowDays) }
    IN IF InWindow(table[k].arrival_date, TrendWindowDays) /\ later # {}
       THEN ord[CHOOSE q \in later : \A r \in later : q <= r]
       ELSE 0

\* round(n / d) to the nearest integer, ties to even, for d > 0
RoundDiv(n, d) ==
    LET q == n \div d
        r == n - q * d
    IN IF 2 * r < d THEN q
       ELSE IF 2 * r > d THEN q + 1
       ELSE IF q % 2 = 0 THEN q ELSE q + 1

\* round(percentage_change, 2), held in hundredths of a percent
PercentageChange(price_change, previous_price) ==
    IF FGt(previous_price, F(0))
    THEN IF price_change.nan THEN NaN
         ELSE F(RoundDiv(10000 * price_change.v, previous_price.v))
    ELSE F(0)

\* variant: a change of exactly two percent already counts as a move
Trend_inclusive(price_change, previous_price) ==
    IF FGt(previous_price, F(0)) /\ ~price_change.nan
    THEN IF 100 * price_change.v >= 2 * previous_price.v THEN "up"
         ELSE IF 100 * price_change.v <= (-2) * previous_price.v THEN "down"
         ELSE "stable"
    ELSE "stable"

\* percentage_change > 2 / < -2 / else, on the value before rounding
Trend(price_change, previous_price) ==
    IF FGt(previous_price, F(0)) /\ ~price_change.nan
    THEN IF 100 * price_change.v > 2 * previous_price.v THEN "up"
         ELSE IF 100 * price_change.v < (-2) * previous_price.v THEN "down"
         ELSE "stable"
    ELSE "stable"

\* the record after the update of its three trend fields; the UPDATE of a
\* record that changed carries updated_at = onupdate() as well
TrendRow(record, previous) ==
    LET price_change == FSub(record.modal_price, previous.modal_price)
        changed ==
          [ record EXCEPT
              !.price_change = price_change,
              !.percentage_change = PercentageChange(price_change, previous.modal_price),
              !.trend = Trend(price_change, previous.modal_price) ]
    IN IF changed = record THEN record ELSE [ changed EXCEPT !.updated_at = today ]

\* the table after the trend pass that reads the rows in the order ord
WithTrends(table, ord) ==
    [ k \in DOMAIN table |->
        LET n == NextInRecentData(table, ord, k) IN
        IF n = 0 THEN table[k] ELSE TrendRow(table[k], table[n]) ]

\* the trend pass at the end of _process_records
CalculateTrends ==
    /\ pc = "trends"
    /\ \E ord \in DateDescOrders(prices) : prices' = WithTrends(prices, ord)
    /\ pc' = "log_success"
    /\ UNCHANGED << durable, offRun, analytics, syncLog, today, runs, runLocals, exc, outcome,
                    syncLocals, fetchLocals, processLocals, feedHistory,
                    faults, logAtStart, upserts >>

\* the query for the distinct commodities, outside the try, raises
CalculateTrendsRaises ==
    /\ pc = "trends"
    /\ faults < MaxFaults
    /\ faults' = faults + 1
    /\ exc' = "database error in _calculate_trends"
    /\ pc' = "except"
    /\ UNCHANGED << durable, offRun, tables, today, runs, runLocals, outcome, syncLocals,
                    fetchLocals, processLocals, feedHistory, logAtStart,
                    upserts >>

(***************************************************************************)
(* sync_latest_data: the log entry, the analytics, the handler.            *)
(***************************************************************************)
\* DataSyncLog(sync_type=..., status='success', records_...=result[...])
SuccessRow ==
    [ sync_date |-> today, sync_type |-> sync_type, status |-> "success",
      records_processed |-> processed, records_inserted |-> inserted,
      records_updated |-> updated, error_message |-> None,
      duration_seconds |-> "elapsed" ]

\* variant: the failed entry without the exception's message
FailedRow_noMessage(e) ==
    [ sync_date |-> today, sync_type |-> sync_type, status |-> "failed",
      records_processed |-> 0, records_inserted |-> 0,
      records_updated |-> 0, error_message |-> None,
      duration_seconds |-> "elapsed" ]

\* DataSyncLog(sync_type=..., status='failed', error_message=str(e)), the
\* three counters at their column default
FailedRow(e) ==
    [ sync_date |-> today, sync_type |-> sync_type, status |-> "failed",
      records_processed |-> 0, records_inserted |-> 0,
      records_updated |-> 0, error_message |-> e,
      duration_seconds |-> "elapsed" ]

\* the sync returned its result: db.add(sync_log)
LogSuccess ==
    /\ pc = "log_success"
    /\ syncLog' = Append(syncLog, SuccessRow)
    /\ pc' = "analytics"
    /\ UNCHANGED << durable, offRun, prices, analytics, today, runs, runLocals, exc, outcome,
                    syncLocals, fetchLocals, processLocals, feedHistory,
                    faults, logAtStart, upserts >>

\* max(prices) and min(prices) as Python folds them: the first element stays
\* unless a later one compares greater (smaller)
RECURSIVE PyMax(_, _)
PyMax(best, rest) ==
    IF rest = << >> THEN best
    ELSE PyMax(IF FGt(Head(rest), best) THEN Head(rest) ELSE best, Tail(rest))
RECURSIVE PyMin(_, _)
PyMin(best, rest) ==
    IF rest = << >> THEN best
    ELSE PyMin(IF FLt(Head(rest), best) THEN Head(rest) ELSE best, Tail(rest))

\* recent_data of _generate_analytics: the commodity's rows of the last 30
\* days, in primary-key order
RECURSIVE RecentData(_, _)
RecentData(table, commodity) ==
    IF table = << >> THEN << >>
    ELSE IF /\ Head(table).commodity = commodity
            /\ InWindow(Head(table).arrival_date, AnalyticsWindowDays)
         THEN << Head(table) >> \o RecentData(Tail(table), commodity)
         ELSE RecentData(Tail(table), commodity)

\* sum(prices)
RECURSIVE FSum(_)
FSum(values) ==
    IF values = << >> THEN F(0)
    ELSE LET rest == FSum(Tail(values)) IN
         IF Head(values).nan \/ rest.nan THEN NaN ELSE F(Head(values).v + rest.v)

\* sorted(data, key=lambda x: x.arrival_date): rows of one date keep their
\* order
RECURSIVE SortedByDate(_)
SortedByDate(data) ==
    IF Len(data) <= 1 THEN data
    ELSE LET front == SortedByDate(SubSeq(data, 1, Len(data) - 1))
             last == data[Len(data)]
             pos == Cardinality({ k \in DOMAIN front :
                                    front[k].arrival_date <= last.arrival_date })
         IN SubSeq(front, 1, pos) \o << last >> \o SubSeq(front, pos + 1, Len(front))

\* a + b on floats
FAdd(a, b) == IF a.nan \/ b.nan THEN NaN ELSE F(a.v + b.v)

\* total_change after the loop over range(1, n) of _calculate_trend_direction
RECURSIVE TotalChange(_, _)
TotalChange(sorted_data, n) ==
    IF n <= 1 THEN F(0)
    ELSE FAdd(TotalChange(sorted_data, n - 1),
              FSub(sorted_data[n].modal_price, sorted_data[n - 1].modal_price))

\* _calculate_trend_direction: avg_change = total_change / comparisons is
\* compared with 10 and -10, and a NaN compares false both times
_calculate_trend_direction(data) ==
    IF Len(data) < 2 THEN "stable"
    ELSE LET sorted_data == SortedByDate(data)
             total_change == TotalChange(sorted_data, Len(sorted_data))
             comparisons == Len(sorted_data) - 1
         IN IF total_change.nan THEN "stable"
            ELSE IF total_change.v > 10 * comparisons THEN "up"
            ELSE IF total_change.v < (-10) * comparisons THEN "down"
            ELSE "stable"

\* sum(range(n)) and sum(i * i for i in range(n))
RECURSIVE SumX(_)
SumX(n) == IF n = 0 THEN 0 ELSE (n - 1) + SumX(n - 1)
RECURSIVE SumX2(_)
SumX2(n) == IF n = 0 THEN 0 ELSE (n - 1) * (n - 1) + SumX2(n - 1)

\* sum(i * r.modal_price for i, r in enumerate(sorted_data)), over the
\* first n rows
RECURSIVE SumXY(_, _)
SumXY(sorted_data, n) ==
    IF n = 0 THEN 0
    ELSE (n - 1) * sorted_data[n].modal_price.v + SumXY(sorted_data, n - 1)

\* variant: the day of the forecast counted from the last index, n - 1
ForecastDay_fromLastIndex(n, horizon) == n - 1 + horizon

\* the x at which the line is read: n + 7 and n + 14
ForecastDay(n, horizon) == n + horizon

\* floor(10^digits * num / den) by long division, which keeps every
\* intermediate value below 10 * den; the result is the pair of the
\* quotient and the remainder
RECURSIVE LongDiv(_, _, _)
LongDiv(num, den, digits) ==
    IF digits = 0 THEN [q |-> num \div den, r |-> num % den]
    ELSE LET up == LongDiv(num, den, digits - 1) IN
         [q |-> 10 * up.q + (10 * up.r) \div den, r |-> (10 * up.r) % den]

\* floor(sqrt(x)) for 0 <= x < 10^6
ISqrt(x) == CHOOSE r \in 0..1000 : r * r <= x /\ (r + 1) * (r + 1) > x

\* sum(p * p for p in prices)
RECURSIVE SumSquares(_)
SumSquares(values) ==
    IF values = << >> THEN 0
    ELSE Head(values).v * Head(values).v + SumSquares(Tail(values))

\* variant: the volatility is taken over the whole window
Recent_wholeWindow(sorted_data) == sorted_data

\* sorted_data[-7:]
Recent(sorted_data) ==
    SubSeq(sorted_data,
           IF Len(sorted_data) > 7 THEN Len(sorted_data) - 6 ELSE 1,
           Len(sorted_data))

\* round(max(30, min(90, 80 - recent_volatility)), 1) in tenths, where
\* recent_volatility = (variance ** 0.5 / avg_price) * 100 over data, 0 when
\* data has fewer than 2 rows or avg_price > 0 is false (a NaN price makes
\* it false).  With s1 the sum of the prices, s2 the sum of their squares
\* and d = len * s2 - s1 * s1, the volatility is 100 * sqrt(d) / s1: it is
\* 50 or more, and the result 30, exactly when 4 * d >= s1 * s1; below
\* that the result is 80 minus the volatility rounded to the nearest tenth,
\* read off floor(2000 * sqrt(d) / s1) = ISqrt(floor(4 * 10^6 * d / s1^2)).
Confidence(data) ==
    LET modal == [k \in DOMAIN data |-> data[k].modal_price]
        s1 == FSum(modal).v
        d == Len(data) * SumSquares(modal) - s1 * s1
    IN IF Len(data) < 2 \/ FSum(modal).nan \/ s1 <= 0 THEN 800
       ELSE IF 4 * d >= s1 * s1 THEN 300
       ELSE 800 - (ISqrt(LongDiv(4 * d, s1 * s1, 6).q) + 1) \div 2

\* _predict_prices: the two predictions, each in hundredths, and the
\* confidence in tenths.  The fit is computed in exact fractions: slope is
\* slopeNum / slopeDen, intercept is (sum_y * slopeDen - slopeNum * sum_x)
\* over n * slopeDen, and round(x, 2) rounds the exact value, ties to even.
_predict_prices(data) ==
    LET modal == [k \in DOMAIN data |-> data[k].modal_price] IN
    IF Len(data) < 3
    THEN IF FSum(modal).nan
         THEN [ predicted_7d |-> NaN, predicted_14d |-> NaN, confidence |-> F(500) ]
         ELSE [ predicted_7d |-> F((100 * FSum(modal).v) \div Len(data)),
                predicted_14d |-> F((100 * FSum(modal).v) \div Len(data)),
                confidence |-> F(500) ]
    ELSE IF FSum(modal).nan
    THEN [ predicted_7d |-> NaN, predicted_14d |-> NaN,
           confidence |-> F(Confidence(Recent(SortedByDate(data)))) ]
    ELSE LET sorted_data == SortedByDate(data)
             n == Len(sorted_data)
             sum_x == SumX(n)
             sum_y == FSum(modal).v
             sum_xy == SumXY(sorted_data, n)
             sum_x2 == SumX2(n)
             slopeNum == n * sum_xy - sum_x * sum_y
             slopeDen == n * sum_x2 - sum_x * sum_x
             interceptNum == sum_y * slopeDen - slopeNum * sum_x
             predicted(h) ==
                 RoundDiv(100 * (interceptNum + slopeNum * n * ForecastDay(n, h)),
                          n * slopeDen)
         IN [ predicted_7d |-> F(predicted(7)),
              predicted_14d |-> F(predicted(14)),
              confidence |-> F(Confidence(Recent(sorted_data))) ]

\* max(recent_data, key=lambda x: x.modal_price): the first row stays unless
\* a later one has a greater modal price
RECURSIVE TopMarketData(_, _)
TopMarketData(best, rest) ==
    IF rest = << >> THEN best
    ELSE TopMarketData(IF FGt(Head(rest).modal_price, best.modal_price)
                       THEN Head(rest) ELSE best, Tail(rest))

\* variant: the average cut off after two decimals
AvgPrice_truncated(modal) ==
    IF FSum(modal).nan THEN NaN ELSE F((100 * FSum(modal).v) \div Len(modal))

\* round(sum(prices) / len(prices), 2), held in hundredths
AvgPrice(modal) ==
    IF FSum(modal).nan THEN NaN ELSE F(RoundDiv(100 * FSum(modal).v, Len(modal)))

\* analytics_data, of which the model keeps the key, the average, the
\* extremes, the two counts, the top market, the two trend directions, the
\* two predictions and the confidence
AnalyticsData(commodity, recent_data) ==
    LET modal == [k \in DOMAIN recent_data |-> recent_data[k].modal_price]
        top_market_data == TopMarketData(Head(recent_data), Tail(recent_data))
    IN
    [ commodity |-> commodity,
      analysis_date |-> today,
      avg_price |-> AvgPrice(modal),
      highest_price |-> PyMax(Head(modal), Tail(modal)),
      lowest_price |-> PyMin(Head(modal), Tail(modal)),
      total_markets |->
          Cardinality({ << recent_data[k].state, recent_data[k].district,
                           recent_data[k].market >> : k \in DOMAIN recent_data }),
      active_markets |-> Len(recent_data),
      top_market |-> << top_market_data.market, top_market_data.district >>,
      top_market_price |-> top_market_data.modal_price,
      weekly_trend |->
          _calculate_trend_direction(
              SelectSeq(recent_data,
                        LAMBDA r : InWindow(r.arrival_date, TrendWindowDays))),
      monthly_trend |-> _calculate_trend_direction(recent_data),
      predicted_price_7d |-> _predict_prices(recent_data).predicted_7d,
      predicted_price_14d |-> _predict_prices(recent_data).predicted_14d,
      prediction_confidence |-> _predict_prices(recent_data).confidence ]

\* variant: the filter compares with a time later than the day's midnight,
\* which no stored analysis_date reaches
SameSnapshot_laterThanMidnight(row, commodity, analysis_date) ==
    row.commodity = commodity /\ row.analysis_date > analysis_date

\* the filter of the query for the day's existing snapshot
SameSnapshot(row, commodity, analysis_date) ==
    row.commodity = commodity /\ row.analysis_date = analysis_date

\* the body of the loop of _generate_analytics for one commodity
SaveSnapshot(table, commodity) ==
    LET recent_data == RecentData(prices, commodity)
        existing == { k \in DOMAIN table : SameSnapshot(table[k], commodity, today) }
    IN IF recent_data = << >> THEN table
       ELSE IF existing # {}
       THEN [ table EXCEPT ![CHOOSE k \in existing : \A m \in existing : k <= m] =
                  AnalyticsData(commodity, recent_data) ]
       ELSE Append(table, AnalyticsData(commodity, recent_data))

RECURSIVE SaveSnapshots(_, _)
SaveSnapshots(table, commodities) ==
    IF commodities = << >> THEN table
    ELSE SaveSnapshots(SaveSnapshot(table, Head(commodities)), Tail(commodities))

\* db.query(MarketPrice.commodity).distinct().all(), in any order
DistinctCommodities ==
    LET cs == { prices[k].commodity : k \in DOMAIN prices } IN
    { seq \in [1..Cardinality(cs) -> cs] :
        \A p, q \in 1..Cardinality(cs) : p # q => seq[p] # seq[q] }

\* _generate_analytics runs to its end, then the result is returned
GenerateAnalytics ==
    /\ pc = "analytics"
    /\ \E commodities \in DistinctCommodities :
        analytics' = SaveSnapshots(analytics, commodities)
    /\ pc' = "returning"
    /\ UNCHANGED << durable, offRun, prices, syncLog, today, runs, runLocals, exc, outcome,
                    syncLocals, fetchLocals, processLocals, feedHistory,
                    faults, logAtStart, upserts >>

\* the query for the distinct commodities, outside the try, raises
GenerateAnalyticsRaises ==
    /\ pc = "analytics"
    /\ faults < MaxFaults
    /\ faults' = faults + 1
    /\ exc' = "database error in _generate_analytics"
    /\ pc' = "except"
    /\ UNCHANGED << durable, offRun, tables, today, runs, runLocals, outcome, syncLocals,
                    fetchLocals, processLocals, feedHistory, logAtStart,
                    upserts >>

\* except Exception as e: db.add(failed sync_log); raise
ExceptHandler ==
    /\ pc = "except"
    /\ syncLog' = Append(syncLog, FailedRow(exc))
    /\ pc' = "raising"
    /\ UNCHANGED << durable, offRun, prices, analytics, today, runs, runLocals, exc, outcome,
                    syncLocals, fetchLocals, processLocals, feedHistory,
                    faults, logAtStart, upserts >>

\* get_db_session (database/database.py): leaving the context, by return or
\* by exception, keeps in the table what the session added and changed
get_db_session_exit(table) == table

\* the session context is left and the caller gets the result or the
\* exception
SessionExit ==
    /\ pc \in {"returning", "raising"}
    /\ prices' = get_db_session_exit(prices)
    /\ analytics' = get_db_session_exit(analytics)
    /\ syncLog' = get_db_session_exit(syncLog)
    /\ outcome' =
         IF pc = "raising"
         THEN [kind |-> "raise", exc |-> exc, result |-> << >>]
         ELSE [kind |-> "return", exc |-> "",
               result |-> << [ status |-> "success", sync_type |-> sync_type,
                               processed |-> processed, inserted |-> inserted,
                               updated |-> updated ] >>]
    /\ committedPrices' = get_db_session_exit(prices)
    /\ pending' = 0
    /\ pc' = "idle"
    /\ UNCHANGED << offRun, today, runs, runLocals, exc, syncLocals, fetchLocals,
                    processLocals, feedHistory, faults, logAtStart, upserts >>

Next ==
    \/ StartRun
    \/ FullSyncLoop
    \/ FullSyncFetched
    \/ IncrementalSyncStart
    \/ IncrementalSyncFetched
    \/ FetchPage
    \/ FetchEmptyPage
    \/ FetchPageFails
    \/ ProcessRecord
    \/ ProcessDone
    \/ CalculateTrends
    \/ CalculateTrendsRaises
    \/ LogSuccess
    \/ GenerateAnalytics
    \/ GenerateAnalyticsRaises
    \/ ExceptHandler
    \/ SessionExit

Spec == Init /\ [][Next]_vars

(***************************************************************************)
(* The processing half of one run on its own: the first full sync of an    *)
(* empty store has fetched its window, and _process_records, the trend     *)
(* pass, the log entry and the analytics run over what it fetched.  The    *)
(* feed of this run quotes one commodity in one market, at most once a     *)
(* day, over the last days.                                                *)
(***************************************************************************)
FeedDays == 3

PipelinePrices ==
    { "97", "98", "100", "101", "102", "103", "2000", "2050", "2100" }

\* what the feed quotes on each of the last days: a modal price or nothing
PipelineQuotes ==
    [ (FirstDay - FeedDays + 1)..FirstDay -> PipelinePrices \cup {Absent} ]

\* _full_sync walks its dates upwards, so what it collects is in date order
RECURSIVE CollectedFrom(_, _)
CollectedFrom(quotes, d) ==
    IF d > FirstDay THEN << >>
    ELSE ( IF quotes[d] = Absent THEN << >>
           ELSE << Raw("Punjab", "Khanna", "Wheat", "FAQ", strftime(d),
                       quotes[d], quotes[d], quotes[d]) >> )
         \o CollectedFrom(quotes, d + 1)

PipelineFeeds ==
    { CollectedFrom(quotes, FirstDay - FeedDays + 1) : quotes \in PipelineQuotes }

\* the records of the feed that the fetch of the last date, today, returned
OfToday(feed) == SelectSeq(feed, LAMBDA r : r.arrival_date = strftime(FirstDay))

InitPipeline ==
    /\ prices = << >>
    /\ analytics = << >>
    /\ syncLog = << >>
    /\ today = FirstDay
    /\ pc = "process"
    /\ runs = 1
    /\ force_full_sync = FALSE
    /\ sync_type = "full"
    /\ exc = ""
    /\ outcome = NoOutcome
    /\ dayIdx = FullSyncDays + 1
    /\ all_records \in PipelineFeeds
    /\ processed = Len(all_records)
    /\ date_filter = strftime(FirstDay)
    /\ fetch_records = OfToday(all_records)
    /\ offset = PageLimit * Len(OfToday(all_records))
    /\ fetched = "return"
    /\ i = 1
    /\ inserted = 0
    /\ updated = 0
    /\ served = Len(all_records)
    /\ faults = 0
    /\ requested = [k \in 1..(FullSyncDays + 1) |-> strftime(FirstDay - FullSyncDays + k - 1)]
    /\ fetchErrors = 0
    /\ feedPages = [k \in DOMAIN OfToday(all_records) |-> << OfToday(all_records)[k] >>]
    /\ feedFailed = FALSE
    /\ delivered = all_records
    /\ logAtStart = 0
    /\ rowsAtStart = 0
    /\ upserts = << >>
    /\ committedPrices = << >>
    /\ pending = 0
    /\ wpc = << >>
    /\ wrec = << >>
    /\ wfound = << >>
    /\ fin = << >>
    /\ fout = << >>

NextPipeline ==
    \/ ProcessRecord
    \/ ProcessDone
    \/ CalculateTrends
    \/ LogSuccess
    \/ GenerateAnalytics
    \/ SessionExit

SpecPipeline == InitPipeline /\ [][NextPipeline]_vars

(***************************************************************************)
(* The upsert loop around its hundredth upsert: the first full sync of an  *)
(* empty store fetched, for today, one quote repeated almost a hundred     *)
(* times and a few more records, and the loop has handled the repeats.     *)
(***************************************************************************)
MaxTailLen == 2

BatchRecord == Raw("Punjab", "Khanna", "Wheat", "FAQ", Today0, "90", "110", "100")

BatchFeeds ==
    { [k \in 1..n |-> BatchRecord] \o tail :
        n \in { BatchSize - 2, BatchSize - 1 },
        tail \in UNION { [1..m -> { r \in Catalog : r.arrival_date = Today0 }] :
                            m \in 1..MaxTailLen } }

\* the repeats at the head of a feed
Repeats(feed) ==
    Cardinality({ n \in DOMAIN feed : \A k \in 1..n : feed[k] = BatchRecord /\ n < BatchSize })

InitBatch ==
    /\ today = FirstDay
    /\ all_records \in BatchFeeds
    /\ LET cleaned == _clean_record(BatchRecord)[1]
           done == IF Repeats(all_records) >= BatchSize - 1
                   THEN BatchSize - 1 ELSE BatchSize - 2
       IN /\ prices = << NewRow(cleaned) >>
          /\ i = done + 1
          /\ inserted = 1
          /\ updated = done - 1
          /\ pending = done
          /\ upserts = [ k \in 1..done |->
                           [ cleaned |-> cleaned,
                             result |-> IF k = 1 THEN "inserted" ELSE "updated",
                             before |-> IF k = 1 THEN 0 ELSE 1,
                             row |-> NewRow(cleaned) ] ]
    /\ analytics = << >>
    /\ syncLog = << >>
    /\ pc = "process"
    /\ runs = 1
    /\ force_full_sync = FALSE
    /\ sync_type = "full"
    /\ exc = ""
    /\ outcome = NoOutcome
    /\ dayIdx = FullSyncDays + 1
    /\ processed = Len(all_records)
    /\ date_filter = strftime(FirstDay)
    /\ fetch_records = all_records
    /\ offset = PageLimit
    /\ fetched = "return"
    /\ served = Len(all_records)
    /\ faults = 0
    /\ requested = [k \in 1..(FullSyncDays + 1) |-> strftime(FirstDay - FullSyncDays + k - 1)]
    /\ fetchErrors = 0
    /\ feedPages = << all_records >>
    /\ feedFailed = FALSE
    /\ delivered = all_records
    /\ logAtStart = 0
    /\ rowsAtStart = 0
    /\ committedPrices = << >>
    /\ InitOffRun

NextBatch ==
    \/ ProcessRecord
    \/ ProcessDone
    \/ CalculateTrends
    \/ CalculateTrendsRaises
    \/ LogSuccess
    \/ GenerateAnalytics
    \/ GenerateAnalyticsRaises
    \/ ExceptHandler
    \/ SessionExit

SpecBatch == InitBatch /\ [][NextBatch]_vars

(***************************************************************************)
(* The same loop with a database that may fail inside it: the existence    *)
(* query of a record or the commit after the hundredth upsert raises, and  *)
(* the except clause of the loop body takes over.                          *)
(***************************************************************************)
NextIsolation ==
    \/ ProcessRecord
    \/ ProcessRecordQueryRaises
    \/ ProcessRecordCommitRaises
    \/ ProcessDone
    \/ CalculateTrends
    \/ CalculateTrendsRaises
    \/ LogSuccess
    \/ GenerateAnalytics
    \/ GenerateAnalyticsRaises
    \/ ExceptHandler
    \/ SessionExit

SpecIsolation == InitBatch /\ [][NextIsolation]_vars

(***************************************************************************)
(* Two runs side by side, each in its own session and each at one record   *)
(* of its upsert loop: the existence query and the write that follows it   *)
(* are two steps, and market_prices has indexes but no unique constraint.  *)
(* A row written by one session is taken to be visible to the other at     *)
(* once; a database that shows it only after the commit delays it further. *)
(***************************************************************************)
Sessions == {1, 2}

\* the cleaned records the catalog gives
CleanedCatalog ==
    { _clean_record(r)[1] : r \in { c \in Catalog : _clean_record(c) # << >> } }

InitConcurrent ==
    /\ InitRun
    /\ wrec \in [Sessions -> CleanedCatalog]
    /\ wpc = [w \in Sessions |-> "query"]
    /\ wfound = [w \in Sessions |-> {}]
    /\ fin = << >>
    /\ fout = << >>

\* existing = db.query(MarketPrice).filter(...).first()
SessionQuery(w) ==
    /\ wpc[w] = "query"
    /\ wfound' = [wfound EXCEPT ![w] = Existing(prices, wrec[w])]
    /\ wpc' = [wpc EXCEPT ![w] = "write"]
    /\ UNCHANGED << runState, wrec, fin, fout >>

\* if existing: setattr(...) else: db.add(MarketPrice(**cleaned_record))
SessionWrite(w) ==
    /\ wpc[w] = "write"
    /\ IF wfound[w] # {}
       THEN \E k \in wfound[w] :
               prices' = [prices EXCEPT ![k] = UpdatedRow(@, wrec[w])]
       ELSE prices' = Append(prices, NewRow(wrec[w]))
    /\ wpc' = [wpc EXCEPT ![w] = "done"]
    /\ UNCHANGED << analytics, syncLog, today, pc, runs, runLocals, exc,
                    outcome, syncLocals, fetchLocals, processLocals,
                    feedHistory, faults, logAtStart, upserts, durable, wrec,
                    wfound, fin, fout >>

NextConcurrent ==
    \/ \E w \in Sessions : SessionQuery(w)
    \/ \E w \in Sessions : SessionWrite(w)

SpecConcurrent == InitConcurrent /\ [][NextConcurrent]_vars

(***************************************************************************)
(* A run after a first run.  The first full sync of an empty store was     *)
(* served today's quotes of two markets for one commodity and has ended    *)
(* with success; its trend pass read the two rows, which have one date, in *)
(* either order.  The feed can serve the same records again.               *)
(***************************************************************************)
FirstFeed ==
    << Raw("Punjab", "Khanna", "Wheat", "FAQ", Today0, "90", "110", "100"),
       Raw("Punjab", "Sahnewal", "Wheat", "FAQ", Today0, "90", "110", "97") >>

\* the rows the upsert loop of the first run inserted
FirstRunInserted ==
    [ k \in DOMAIN FirstFeed |-> NewRow(_clean_record(FirstFeed[k])[1]) ]

InitRerun ==
    /\ today = FirstDay
    /\ prices \in { WithTrends(FirstRunInserted, ord) :
                       ord \in DateDescOrders(FirstRunInserted) }
    /\ committedPrices = prices
    /\ pending = 0
    /\ pc = "idle"
    /\ runs = 1
    /\ force_full_sync = FALSE
    /\ sync_type = "full"
    /\ exc = ""
    /\ dayIdx = FullSyncDays + 1
    /\ all_records = FirstFeed
    /\ processed = Len(FirstFeed)
    /\ date_filter = strftime(FirstDay)
    /\ fetch_records = FirstFeed
    /\ offset = PageLimit * Len(FirstFeed)
    /\ fetched = "return"
    /\ i = Len(FirstFeed) + 1
    /\ inserted = Len(FirstFeed)
    /\ updated = 0
    /\ syncLog = << SuccessRow >>
    /\ analytics = SaveSnapshots(<< >>, << "Wheat" >>)
    /\ outcome = [kind |-> "return", exc |-> "",
                  result |-> << [ status |-> "success", sync_type |-> sync_type,
                                  processed |-> processed, inserted |-> inserted,
                                  updated |-> updated ] >>]
    \* the feed's budget of records is counted from here on
    /\ served = 0
    /\ faults = 0
    /\ requested = [k \in 1..(FullSyncDays + 1) |-> strftime(FirstDay - FullSyncDays + k - 1)]
    /\ fetchErrors = 0
    /\ feedPages = [k \in DOMAIN FirstFeed |-> << FirstFeed[k] >>]
    /\ feedFailed = FALSE
    /\ delivered = FirstFeed
    /\ logAtStart = 0
    /\ rowsAtStart = 0
    /\ upserts = [ k \in DOMAIN FirstFeed |->
                     [ cleaned |-> _clean_record(FirstFeed[k])[1],
                       result |-> "inserted", before |-> 0,
                       row |-> FirstRunInserted[k] ] ]
    /\ InitOffRun

SpecRerun == InitRerun /\ [][Next]_vars

(***************************************************************************)
(* A run after a first run that found the feed empty, with the steps the   *)
(* run is sure to take.  The first run was a full sync; it ended with      *)
(* success, or the query at the head of its trend pass raised.             *)
(***************************************************************************)
InitLive ==
    /\ today = FirstDay
    /\ prices = << >>
    /\ committedPrices = << >>
    /\ pending = 0
    /\ analytics = << >>
    /\ pc = "idle"
    /\ runs = 1
    /\ force_full_sync = FALSE
    /\ sync_type = "full"
    /\ dayIdx = FullSyncDays + 1
    /\ all_records = << >>
    /\ processed = 0
    /\ date_filter = strftime(FirstDay)
    /\ fetch_records = << >>
    /\ offset = 0
    /\ fetched = "return"
    /\ i = 1
    /\ inserted = 0
    /\ updated = 0
    /\ \/ /\ exc = ""
          /\ faults = 0
          /\ syncLog = << SuccessRow >>
          /\ outcome = [kind |-> "return", exc |-> "",
                        result |-> << [ status |-> "success", sync_type |-> sync_type,
                                        processed |-> processed, inserted |-> inserted,
                                        updated |-> updated ] >>]
       \/ /\ exc = "database error in _calculate_trends"
          /\ faults = 1
          /\ syncLog = << FailedRow(exc) >>
          /\ outcome = [kind |-> "raise", exc |-> exc, result |-> << >>]
    /\ served = 0
    /\ requested = [k \in 1..(FullSyncDays + 1) |-> strftime(FirstDay - FullSyncDays + k - 1)]
    /\ fetchErrors = 0
    /\ feedPages = << >>
    /\ feedFailed = FALSE
    /\ delivered = << >>
    /\ logAtStart = 0
    /\ rowsAtStart = 0
    /\ upserts = << >>
    /\ InitOffRun

\* a step of the invocation that is running
RunStep ==
    \/ FullSyncLoop
    \/ FullSyncFetched
    \/ IncrementalSyncStart
    \/ IncrementalSyncFetched
    \/ FetchPage
    \/ FetchEmptyPage
    \/ FetchPageFails
    \/ ProcessRecord
    \/ ProcessDone
    \/ CalculateTrends
    \/ CalculateTrendsRaises
    \/ LogSuccess
    \/ GenerateAnalytics
    \/ GenerateAnalyticsRaises
    \/ ExceptHandler
    \/ SessionExit

\* An invocation that has started goes on: its awaits and its requests, the
\* latter with timeout=30, come back.  Nothing obliges anyone to start an
\* invocation.  The feed has MaxRecords records to serve, so it cannot
\* answer with non-empty pages for ever.
SpecLive == InitLive /\ [][Next]_vars /\ WF_vars(RunStep)

(***************************************************************************)
(* _predict_prices applied on its own to a window of rows of one           *)
(* commodity, one row a day, handed over oldest first or newest first.     *)
(***************************************************************************)
MaxSeriesLen == 5

ForecastPrices == { 100, 102, 104, 106, 108 }

\* the rows of a series of prices, the last of them dated today
DatedOldestFirst(series) ==
    [ k \in DOMAIN series |->
        [ arrival_date |-> FirstDay - Len(series) + k, modal_price |-> F(series[k]) ] ]
DatedNewestFirst(series) ==
    [ k \in DOMAIN series |-> DatedOldestFirst(series)[Len(series) + 1 - k] ]

\* the series that starts at a price and moves by the steps given
RECURSIVE Walk(_, _)
Walk(start, steps) ==
    IF steps = << >> THEN << start >>
    ELSE << start >> \o Walk(start + Head(steps), Tail(steps))

\* the series whose price moves by at most one step of 2 from day to day
ForecastInputs ==
    LET series ==
          { y \in { Walk(start, steps) :
                      start \in ForecastPrices,
                      steps \in UNION { [1..n -> {-2, 0, 2}] : n \in 0..(MaxSeriesLen - 1) } } :
              \A k \in DOMAIN y : y[k] \in ForecastPrices }
    IN
    { DatedOldestFirst(y) : y \in series } \cup { DatedNewestFirst(y) : y \in series }

InitForecast ==
    /\ InitRun
    /\ wpc = << >>
    /\ wrec = << >>
    /\ wfound = << >>
    /\ fin \in ForecastInputs
    /\ fout = << >>

PredictPrices ==
    /\ fout = << >>
    /\ fout' = << _predict_prices(fin) >>
    /\ UNCHANGED << runState, wpc, wrec, wfound, fin >>

NextForecast == PredictPrices

SpecForecast == InitForecast /\ [][NextForecast]_vars

(***************************************************************************)
(* _predict_prices applied on its own to windows short enough for the      *)
(* fallback and long enough for the last seven rows to be fewer than all,  *)
(* of calm and of jumpy prices, handed over newest first.                  *)
(***************************************************************************)
MaxWindowLen == 8

ConfidencePrices == { 100, 110, 400 }

ConfidenceInputs ==
    { DatedNewestFirst(y) :
        y \in UNION { [1..n -> ConfidencePrices] : n \in 1..MaxWindowLen } }

InitConfidence ==
    /\ InitRun
    /\ wpc = << >>
    /\ wrec = << >>
    /\ wfound = << >>
    /\ fin \in ConfidenceInputs
    /\ fout = << >>

SpecConfidence == InitConfidence /\ [][NextForecast]_vars

(***************************************************************************)
(* _calculate_trend_direction applied on its own to a window of rows of    *)
(* one commodity, one row a day, handed over oldest first or newest first. *)
(* A price is a number or the NaN that float() makes of "nan" and that     *)
(* _clean_record lets through.                                             *)
(***************************************************************************)
MaxDirectionLen == 4

DirectionPrices == { F(100), F(110), F(111), F(120), F(121), NaN }

\* the rows of a series of prices, the last of them dated today
DirectionRows(series) ==
    [ k \in DOMAIN series |->
        [ arrival_date |-> FirstDay - Len(series) + k, modal_price |-> series[k] ] ]

DirectionInputs ==
    LET series == UNION { [1..n -> DirectionPrices] : n \in 1..MaxDirectionLen } IN
    { DirectionRows(y) : y \in series }
      \cup { [ k \in DOMAIN y |-> DirectionRows(y)[Len(y) + 1 - k] ] : y \in series }

InitDirection ==
    /\ InitRun
    /\ wpc = << >>
    /\ wrec = << >>
    /\ wfound = << >>
    /\ fin \in DirectionInputs
    /\ fout = << >>

CalculateTrendDirection ==
    /\ fout = << >>
    /\ fout' = << _calculate_trend_direction(fin) >>
    /\ UNCHANGED << runState, wpc, wrec, wfound, fin >>

NextDirection == CalculateTrendDirection

SpecDirection == InitDirection /\ [][NextDirection]_vars

(***************************************************************************)
(* Properties.                                                             *)
(***************************************************************************)
\* an invocation has ended and nothing has started since
RunEnded == pc = "idle" /\ runs > 0

\* the entries the running (or last) invocation wrote to data_sync_log
RowsOfRun == { k \in DOMAIN syncLog : k > logAtStart }

\* the fields _clean_record produces, as a row holds them
CleanedFields(row) ==
    [ state |-> row.state, district |-> row.district, market |-> row.market,
      commodity |-> row.commodity, variety |-> row.variety,
      grade |-> row.grade, arrival_date |-> row.arrival_date,
      min_price |-> row.min_price, max_price |-> row.max_price,
      modal_price |-> row.modal_price ]

\* the identity of a price record: the tuple the store is to hold once
IdentityOf(row) ==
    << row.state, row.district, row.market, row.commodity, row.arrival_date >>

\* the stored rows with the identity of a cleaned record
RowsOfIdentity(cleaned) ==
    { k \in DOMAIN prices : IdentityOf(prices[k]) = IdentityOf(cleaned) }

\* C1: the mode of a run is 'full' exactly when data_sync_log held no
\* 'success' entry when the run started or force_full_sync is set, and
\* 'incremental' otherwise; entries with another status do not count.
C1_ModeSelection ==
    pc # "idle" =>
        /\ sync_type \in {"full", "incremental"}
        /\ sync_type = "full" <=>
              \/ force_full_sync
              \/ \A k \in 1..logAtStart : syncLog[k].status # "success"

\* a run without the force flag over a history of failed entries only
C1_Witness ==
    /\ pc # "idle"
    /\ ~force_full_sync
    /\ logAtStart > 0
    /\ \A k \in 1..logAtStart : syncLog[k].status = "failed"
    /\ sync_type = "full"

\* C2: in every state market_prices holds at most one row for each tuple
\* (state, district, market, commodity, arrival_date).
C2_IdentityUnique ==
    \A p, q \in DOMAIN prices :
        IdentityOf(prices[p]) = IdentityOf(prices[q]) => p = q

\* one run has processed two different quotes of one identity
C2_Witness ==
    \E p, q \in DOMAIN upserts :
        /\ p < q
        /\ IdentityOf(upserts[p].cleaned) = IdentityOf(upserts[q].cleaned)
        /\ upserts[p].cleaned # upserts[q].cleaned
        /\ Len(prices) = 1

\* C3: when a run processes the same cleaned record twice and its identity
\* was not stored before the first time, the first is counted as inserted,
\* the second as updated, one row of that identity is stored, and the row's
\* cleaned fields after the second processing are those after the first.
C3_IdempotentUpsert ==
    \A p, q \in DOMAIN upserts :
        ( /\ p < q
          /\ upserts[p].cleaned = upserts[q].cleaned
          /\ upserts[p].before = 0 )
        => /\ upserts[p].result = "inserted"
           /\ upserts[q].result = "updated"
           /\ upserts[q].before = 1
           /\ CleanedFields(upserts[q].row) = CleanedFields(upserts[p].row)
           /\ Cardinality(RowsOfIdentity(upserts[q].cleaned)) = 1

\* a run has processed one cleaned record twice, first as an insert
C3_Witness ==
    /\ Len(upserts) = 2
    /\ upserts[1].cleaned = upserts[2].cleaned
    /\ upserts[1].result = "inserted"
    /\ upserts[2].result = "updated"
    /\ Len(prices) = 1

\* C4: every stored row of market_prices has modal_price > 0.
C4_StoredModalPositive ==
    \A k \in DOMAIN prices : FGt(prices[k].modal_price, F(0))

\* C5: no stored row of market_prices has an empty state, district, market
\* or commodity.
C5_NoEmptyEssentialField ==
    \A k \in DOMAIN prices :
        /\ prices[k].state # ""
        /\ prices[k].district # ""
        /\ prices[k].market # ""
        /\ prices[k].commodity # ""

\* C6: every invocation of sync_latest_data writes exactly one entry to
\* data_sync_log.
C6_ExactlyOneRow == RunEnded => Cardinality(RowsOfRun) = 1

\* C7: when an exception escapes the sync or the analytics step, the last
\* entry of data_sync_log is a 'failed' one with the run's sync_type, the
\* exception's message and a duration, and the caller gets that exception
\* and no result.
C7_FailurePath ==
    ((pc = "raising" \/ RunEnded) /\ exc # "") =>
        /\ RunEnded =>
              /\ outcome.kind = "raise"
              /\ outcome.exc = exc
              /\ outcome.result = << >>
        /\ RowsOfRun # {}
        /\ syncLog[Len(syncLog)].status = "failed"
        /\ syncLog[Len(syncLog)].sync_type = sync_type
        /\ syncLog[Len(syncLog)].error_message = exc
        /\ syncLog[Len(syncLog)].duration_seconds = "elapsed"

\* a run ended by a database error in the trend pass
C7_Witness ==
    /\ RunEnded
    /\ exc = "database error in _calculate_trends"
    /\ outcome.kind = "raise"
    /\ syncLog[Len(syncLog)].status = "failed"

\* the dates of the window of a full sync, oldest first
WindowDates ==
    [ k \in 1..(FullSyncDays + 1) |-> strftime(today - FullSyncDays + k - 1) ]

\* C8: in a full sync in which the fetch of a date raised and no other
\* error occurred, every date of the window was requested, every valid
\* record of the dates that were fetched is stored, and the run's entry has
\* status 'success' and records_processed equal to the number of records
\* of those dates.
C8_PartialFailureIsolation ==
    (RunEnded /\ sync_type = "full" /\ fetchErrors > 0 /\ exc = "") =>
        /\ requested = WindowDates
        /\ \A k \in DOMAIN delivered :
              _clean_record(delivered[k]) # << >> =>
                  RowsOfIdentity(_clean_record(delivered[k])[1]) # {}
        /\ RowsOfRun # {}
        /\ syncLog[Len(syncLog)].status = "success"
        /\ syncLog[Len(syncLog)].records_processed = Len(delivered)

\* a full sync with a date that raised and a later date that gave a record
C8_Witness ==
    /\ RunEnded
    /\ sync_type = "full"
    /\ fetchErrors > 0
    /\ exc = ""
    /\ Len(delivered) > 0
    /\ Len(prices) > 0
    /\ syncLog[Len(syncLog)].status = "success"

\* C9: a failing feed request never makes the run fail: no invocation
\* raises the request's error to its caller and no 'failed' entry carries it.
C9_FeedErrorNeverFatal ==
    /\ outcome.exc # "API request failed"
    /\ \A k \in DOMAIN syncLog :
          syncLog[k].error_message # "API request failed"

\* C10: when a request of _fetch_api_data fails, the call raises if it was
\* the request for the first page, and otherwise returns exactly the records
\* of the pages it was served before, in order.
C10_FetchFailureSplit ==
    (pc = "fetch_done" /\ feedFailed) =>
        /\ feedPages = << >> => fetched = "raise"
        /\ feedPages # << >> =>
              fetched = "return" /\ fetch_records = Flatten(feedPages)

\* a fetch whose second request failed
C10_Witness ==
    /\ pc = "fetch_done"
    /\ feedFailed
    /\ Len(feedPages) = 1
    /\ fetched = "return"

\* what the rule of two percent makes of a price and the price before it
Classified(current, previous) ==
    IF 100 * (current - previous) > 2 * previous THEN "up"
    ELSE IF 100 * (current - previous) < (-2) * previous THEN "down"
    ELSE "stable"

\* the row m can be the one the trend pass compared the row k with
PreviousOf(k, m) ==
    /\ m # k
    /\ prices[m].commodity = prices[k].commodity
    /\ prices[m].arrival_date <= prices[k].arrival_date
    /\ prices[k].price_change = F(prices[k].modal_price.v - prices[m].modal_price.v)

\* C11: every row the trend pass has updated is 'up' exactly when its
\* change against the previous price is more than 2 percent of that price,
\* 'down' exactly when it is less than minus 2 percent, and 'stable'
\* otherwise, exactly 2 percent either way included; a row the pass has
\* not updated keeps the defaults it was inserted with.
C11_TrendClassification ==
    \A k \in DOMAIN prices :
        \/ /\ prices[k].price_change = F(0)
           /\ prices[k].percentage_change = F(0)
           /\ prices[k].trend = "stable"
        \/ \E m \in DOMAIN prices :
              /\ PreviousOf(k, m)
              /\ prices[k].trend =
                    Classified(prices[k].modal_price.v, prices[m].modal_price.v)

\* the pass has labelled 98 then 100, a rise of just over 2 percent, 'up'
\* and has left 100 then 102, a rise of exactly 2 percent, 'stable'
C11_Witness ==
    /\ pc = "log_success"
    /\ \E k, m, n \in DOMAIN prices :
          /\ PreviousOf(m, n) /\ PreviousOf(k, m)
          /\ prices[n].modal_price = F(98)
          /\ prices[m].modal_price = F(100)
          /\ prices[m].trend = "up"
          /\ prices[k].modal_price = F(102)
          /\ prices[k].percentage_change = F(200)
          /\ prices[k].trend = "stable"

\* C12: within a run the trend pass starts only when every record of the
\* run has been through the upsert loop and every upsert is committed, and
\* the analytics start only from the state the finished trend pass left.
C12_PipelineOrdering ==
    [][ /\ (pc # "trends" /\ pc' = "trends") =>
              (i > Len(all_records) /\ pending = 0)
        /\ (pc # "analytics" /\ pc' = "analytics") =>
              (pc = "log_success" /\ i > Len(all_records)) ]_vars

\* the stored rows of a commodity inside the 30 days of the analytics
RowsInAnalyticsWindow(commodity) ==
    { k \in DOMAIN prices :
        /\ prices[k].commodity = commodity
        /\ prices[k].arrival_date > today - AnalyticsWindowDays }

\* C13: market_analytics never holds two rows with the same commodity and
\* analysis_date, and when the analytics of a run have finished, the one
\* row of today of every commodity with rows in the window carries the
\* figures of this run (a run later in the day has overwritten them).
C13_SnapshotUnique ==
    /\ \A p, q \in DOMAIN analytics :
          ( /\ analytics[p].commodity = analytics[q].commodity
            /\ analytics[p].analysis_date = analytics[q].analysis_date ) => p = q
    /\ pc = "returning" =>
          \A c \in { prices[k].commodity : k \in DOMAIN prices } :
              RowsInAnalyticsWindow(c) # {} =>
                  \E p \in DOMAIN analytics :
                      /\ analytics[p].commodity = c
                      /\ analytics[p].analysis_date = today
                      /\ analytics[p].active_markets =
                            Cardinality(RowsInAnalyticsWindow(c))

\* two runs of one day have both succeeded and each inserted a row of the
\* same commodity: the snapshot of the first, of one row, was overwritten
C13_Witness ==
    /\ pc = "returning"
    /\ Len(syncLog) = 2
    /\ syncLog[1].status = "success" /\ syncLog[2].status = "success"
    /\ syncLog[1].sync_date = syncLog[2].sync_date
    /\ syncLog[1].records_inserted = 1 /\ syncLog[2].records_inserted = 1
    /\ Len(analytics) = 1
    /\ analytics[1].active_markets = 2

\* the modal prices of the feed of the run, as numbers
FeedPrice(k) == NumeralValue[all_records[k].modal_price]
RECURSIVE FeedPriceSum(_)
FeedPriceSum(k) == IF k = 0 THEN 0 ELSE FeedPrice(k) + FeedPriceSum(k - 1)

\* the feed holds records, with pairwise distinct identities
FeedIdentitiesDistinct ==
    /\ all_records # << >>
    /\ \A p, q \in DOMAIN all_records :
          p # q => all_records[p].arrival_date # all_records[q].arrival_date

\* a successful run over k valid records of one commodity with pairwise
\* distinct identities has left k rows and one snapshot whose extremes and
\* top market price are the greatest and least of the k modal prices
EndToEndRowsAndExtremes ==
    /\ Len(prices) = Len(all_records)
    /\ Len(analytics) = 1
    /\ analytics[1].commodity = "Wheat"
    /\ \E k \in DOMAIN all_records : analytics[1].highest_price = F(FeedPrice(k))
    /\ \E k \in DOMAIN all_records : analytics[1].lowest_price = F(FeedPrice(k))
    /\ \A k \in DOMAIN all_records :
          /\ analytics[1].lowest_price.v <= FeedPrice(k)
          /\ FeedPrice(k) <= analytics[1].highest_price.v
    /\ 100 * analytics[1].lowest_price.v <= analytics[1].avg_price.v
    /\ analytics[1].avg_price.v <= 100 * analytics[1].highest_price.v
    /\ analytics[1].top_market_price = analytics[1].highest_price

\* C14 as claimed: after such a run avg_price is the mean of the k modal
\* prices (avg_price is held in hundredths), next to k rows, one snapshot,
\* the extremes, lowest_price <= avg_price <= highest_price and
\* top_market_price = highest_price.
C14_EndToEndExactMean ==
    (RunEnded /\ FeedIdentitiesDistinct) =>
        /\ EndToEndRowsAndExtremes
        /\ Len(all_records) * analytics[1].avg_price.v =
              100 * FeedPriceSum(Len(all_records))

\* C14, amended: after such a run avg_price is the mean of the k modal
\* prices rounded to two decimals, next to k rows, one snapshot, the
\* extremes, lowest_price <= avg_price <= highest_price and
\* top_market_price = highest_price; for 2000, 2050, 2100 the average is
\* 2050 and the second and third rows are 'up'.
C14_EndToEnd ==
    (RunEnded /\ FeedIdentitiesDistinct) =>
        /\ EndToEndRowsAndExtremes
        /\ LET k == Len(all_records)
               d == k * analytics[1].avg_price.v - 100 * FeedPriceSum(k)
           IN 2 * d <= k /\ 2 * d >= -k
        /\ (Len(all_records) = 3 /\ FeedPrice(1) = 2000 /\ FeedPrice(2) = 2050
              /\ FeedPrice(3) = 2100) =>
                /\ analytics[1].avg_price = F(205000)
                /\ analytics[1].highest_price = F(2100)
                /\ analytics[1].lowest_price = F(2000)
                /\ \A r \in DOMAIN prices :
                      prices[r].modal_price.v > 2000 => prices[r].trend = "up"

\* the run over wheat at 2000, 2050 and 2100 on three days has ended
C14_Witness ==
    /\ RunEnded
    /\ FeedIdentitiesDistinct
    /\ Len(all_records) = 3
    /\ FeedPrice(1) = 2000 /\ FeedPrice(2) = 2050 /\ FeedPrice(3) = 2100
    /\ outcome.kind = "return"
    /\ Len(prices) = 3
    /\ analytics[1].avg_price = F(205000)

\* the window handed to _predict_prices, read by day: the price of the
\* x-th oldest row, x counted from 0
WindowLen == Len(fin)
WindowPrice(x) ==
    LET k == CHOOSE r \in DOMAIN fin : fin[r].arrival_date = FirstDay - WindowLen + 1 + x
    IN fin[k].modal_price.v
RECURSIVE Sigma(_, _)
Sigma(f, n) == IF n = 0 THEN 0 ELSE f[n - 1] + Sigma(f, n - 1)
WindowIndex == 0..(WindowLen - 1)

\* the least-squares line through the points (x, WindowPrice(x)): its slope
\* is FitSlopeNum / FitDen and its intercept FitInterceptNum / FitScale
FitDen ==
    WindowLen * Sigma([x \in WindowIndex |-> x * x], WindowLen)
      - Sigma([x \in WindowIndex |-> x], WindowLen)
          * Sigma([x \in WindowIndex |-> x], WindowLen)
FitSlopeNum ==
    WindowLen * Sigma([x \in WindowIndex |-> x * WindowPrice(x)], WindowLen)
      - Sigma([x \in WindowIndex |-> x], WindowLen)
          * Sigma([x \in WindowIndex |-> WindowPrice(x)], WindowLen)
FitScale == WindowLen * FitDen
FitInterceptNum ==
    Sigma([x \in WindowIndex |-> WindowPrice(x)], WindowLen) * FitDen
      - FitSlopeNum * Sigma([x \in WindowIndex |-> x], WindowLen)
\* the residual of the point x against the line, times FitScale
Residual(x) ==
    FitScale * WindowPrice(x) - FitInterceptNum - WindowLen * FitSlopeNum * x
\* the line is the least-squares fit: its residuals and their moments
\* against x sum to zero
IsLeastSquaresFit ==
    /\ Sigma([x \in WindowIndex |-> Residual(x)], WindowLen) = 0
    /\ Sigma([x \in WindowIndex |-> x * Residual(x)], WindowLen) = 0
\* intercept + slope * (n + h), times FitScale
LineAt(h) == FitInterceptNum + WindowLen * FitSlopeNum * (WindowLen + h)

\* the window is the series 100, 102, 104, 106, 108
IsExampleSeries ==
    /\ WindowLen = 5
    /\ \A x \in WindowIndex : WindowPrice(x) = 100 + 2 * x

\* C15 as claimed: for a window of n >= 3 rows _predict_prices returns
\* intercept + slope * (n + 7) and intercept + slope * (n + 14) of the
\* least-squares line of the prices against the index of the day (the
\* results are held in hundredths).
C15_ForecastExact ==
    (fout # << >> /\ WindowLen >= 3) =>
        /\ IsLeastSquaresFit
        /\ FitScale * fout[1].predicted_7d.v = 100 * LineAt(7)
        /\ FitScale * fout[1].predicted_14d.v = 100 * LineAt(14)

\* C15, amended: for a window of n >= 3 rows _predict_prices returns
\* intercept + slope * (n + 7) and intercept + slope * (n + 14) of the
\* least-squares line, each rounded to two decimals, whatever order the
\* rows are handed over in; for 100, 102, 104, 106, 108 the slope is 2, the
\* intercept 100 and the results 124 and 138.
C15_Forecast ==
    (fout # << >> /\ WindowLen >= 3) =>
        /\ IsLeastSquaresFit
        /\ 2 * (FitScale * fout[1].predicted_7d.v - 100 * LineAt(7)) <= FitScale
        /\ 2 * (100 * LineAt(7) - FitScale * fout[1].predicted_7d.v) <= FitScale
        /\ 2 * (FitScale * fout[1].predicted_14d.v - 100 * LineAt(14)) <= FitScale
        /\ 2 * (100 * LineAt(14) - FitScale * fout[1].predicted_14d.v) <= FitScale
        /\ IsExampleSeries =>
              /\ FitSlopeNum = 2 * FitDen
              /\ FitInterceptNum = 100 * FitScale
              /\ fout[1].predicted_7d = F(12400)
              /\ fout[1].predicted_14d = F(13800)

\* the function has been applied to the example series, handed over newest
\* first
C15_Witness ==
    /\ fout # << >>
    /\ IsExampleSeries
    /\ fin[1].modal_price = F(108)
    /\ fout[1].predicted_7d = F(12400)

\* the upserts of the run that lie in whole batches of a hundred
InWholeBatches == 1..((Len(upserts) \div BatchSize) * BatchSize)

C17_AtomicUpsert ==
    \A p, q \in DOMAIN prices :
        IdentityOf(prices[p]) = IdentityOf(prices[q]) => p = q

\* the failed requests the running fetch has met
FailedRequests == IF feedFailed THEN 1 ELSE 0

\* C18: a page request that fails is made again, and the fetch of the date
\* gives the page up only when max_retries requests for it had failed
\* before.
C18_BoundedPageRetry ==
    [][ (pc = "fetch" /\ pc' = "fetch_done" /\ feedFailed') =>
            FailedRequests >= max_retries ]_vars

\* the rows of a table, without their order
RowSet(table) == { table[k] : k \in DOMAIN table }

\* the second run was served what the first run was served
SameFeedAgain ==
    /\ Len(delivered) = Len(FirstFeed)
    /\ RowSet(delivered) = RowSet(FirstFeed)

\* C19: a run over the feed contents of the run before it, on the same
\* day, leaves market_prices as it found it, row for row with the same
\* prices, price_change, percentage_change and trend, and leaves the one
\* snapshot of the day with the same figures: it adds no row.
C19_Rerunnable ==
    (pc = "returning" /\ runs = 2 /\ today = FirstDay /\ SameFeedAgain) =>
        /\ Len(prices) = Len(committedPrices)
        /\ RowSet(prices) = RowSet(committedPrices)
        /\ Len(analytics) = 1
        /\ analytics[1].avg_price = F(9850)
        /\ analytics[1].highest_price = F(100)
        /\ analytics[1].lowest_price = F(97)
        /\ analytics[1].active_markets = 2

\* C20: a run writes its 'success' entry to data_sync_log only when the
\* analytics have finished, so while a run is before or in its analytics
\* the log holds no 'success' entry of that run.
C20_LogLast ==
    \A k \in RowsOfRun :
        syncLog[k].status = "success" => pc \in {"returning", "idle"}

\* C21: every row the trend pass changes gets as price_change its modal
\* price minus the modal price of the next-older row of its commodity, a
\* row of a strictly earlier arrival date with no row of the commodity
\* dated in between, also when several markets report on one date.
C21_PreviousDayReference ==
    [][ (pc = "trends" /\ pc' = "log_success") =>
          \A k \in DOMAIN prices :
              prices'[k] # prices[k] =>
                  \E m \in DOMAIN prices :
                      /\ prices[m].commodity = prices[k].commodity
                      /\ prices[m].arrival_date < prices[k].arrival_date
                      /\ \A r \in DOMAIN prices :
                            prices[r].commodity = prices[k].commodity =>
                                \/ prices[r].arrival_date <= prices[m].arrival_date
                                \/ prices[r].arrival_date >= prices[k].arrival_date
                      /\ prices'[k].price_change =
                            F(prices[k].modal_price.v - prices[m].modal_price.v) ]_vars

\* the last seven days of the window handed to _predict_prices, or all of
\* them when they are fewer, and the sums of their prices and squared prices
RecentIndex == { x \in WindowIndex : x >= WindowLen - 7 }
RECURSIVE SumOver(_, _)
SumOver(f, xs) ==
    IF xs = {} THEN 0
    ELSE LET x == CHOOSE y \in xs : TRUE IN f[x] + SumOver(f, xs \ {x})
RecentSum == SumOver([x \in WindowIndex |-> WindowPrice(x)], RecentIndex)
RecentSumSquares ==
    SumOver([x \in WindowIndex |-> WindowPrice(x) * WindowPrice(x)], RecentIndex)
\* the population variance of the recent prices, times the square of their
\* number
RecentSpread ==
    Cardinality(RecentIndex) * RecentSumSquares - RecentSum * RecentSum
\* the recent relative volatility, stdev / mean * 100, is 50 or more
VolatilityAtLeast50 == 4 * RecentSpread >= RecentSum * RecentSum
\* floor of the square of twenty times the recent relative volatility, and
\* whether that square is a whole number
VolatilitySquare == LongDiv(4 * RecentSpread, RecentSum * RecentSum, 6)

\* with 1 or 2 rows both predictions are the plain average (held in
\* hundredths) and the confidence is 50 (held in tenths)
FallbackForShortWindow ==
    WindowLen < 3 =>
        /\ fout[1].predicted_7d = fout[1].predicted_14d
        /\ WindowLen * fout[1].predicted_7d.v =
              100 * SumOver([x \in WindowIndex |-> WindowPrice(x)], WindowIndex)
        /\ fout[1].confidence = F(500)

\* C22 as claimed: with 1 or 2 rows _predict_prices returns the plain
\* average twice and confidence 50; with 3 or more rows the confidence is
\* 80 minus the relative volatility of the last seven rows, held to the
\* range from 30 to 90; so the confidence always lies between 0 and 100.
C22_ConfidenceExact ==
    fout # << >> =>
        /\ FallbackForShortWindow
        /\ WindowLen >= 3 =>
              IF VolatilityAtLeast50 THEN fout[1].confidence = F(300)
              ELSE /\ VolatilitySquare.r = 0
                   /\ 4 * (800 - fout[1].confidence.v) * (800 - fout[1].confidence.v)
                        = VolatilitySquare.q
        /\ fout[1].confidence.v >= 0 /\ fout[1].confidence.v <= 1000

\* C22, amended: with 1 or 2 rows _predict_prices returns the plain average
\* twice and confidence 50; with 3 or more rows the confidence is 80 minus
\* the relative volatility of the last seven rows, held to the range from
\* 30 to 90 and rounded to one decimal; so the confidence always lies
\* between 0 and 100.
C22_Confidence ==
    fout # << >> =>
        /\ FallbackForShortWindow
        /\ WindowLen >= 3 =>
              /\ ~fout[1].confidence.nan
              /\ fout[1].confidence.v >= 300 /\ fout[1].confidence.v <= 900
              /\ IF VolatilityAtLeast50 THEN fout[1].confidence = F(300)
                 ELSE LET twice == 2 * (800 - fout[1].confidence.v) IN
                      /\ twice >= 0
                      /\ twice >= 2 => (twice - 1) * (twice - 1) <= VolatilitySquare.q
                      /\ VolatilitySquare.q < (twice + 1) * (twice + 1)
        /\ fout[1].confidence.v >= 0 /\ fout[1].confidence.v <= 1000

\* the function has been applied to eight rows, the oldest at 400 and the
\* last seven calm: the confidence is 75.6, where the volatility of all
\* eight would have given the floor of 30
C22_Witness ==
    /\ fout # << >>
    /\ WindowLen = 8
    /\ WindowPrice(0) = 400
    /\ \A x \in RecentIndex : WindowPrice(x) \in {100, 110}
    /\ fout[1].confidence = F(756)

\* the oldest and the newest row of the window handed to the function
OldestRow == CHOOSE r \in DOMAIN fin : \A q \in DOMAIN fin : fin[r].arrival_date <= fin[q].arrival_date
NewestRow == CHOOSE r \in DOMAIN fin : \A q \in DOMAIN fin : fin[r].arrival_date >= fin[q].arrival_date

\* what the rule of ten currency units makes of a total change over a
\* number of steps
DirectionOf(total, steps) ==
    IF total > 10 * steps THEN "up"
    ELSE IF total < (-10) * steps THEN "down"
    ELSE "stable"

\* C23: _calculate_trend_direction gives 'stable' for fewer than 2 rows and
\* otherwise the class of the average consecutive change of the rows in
\* date order, 'up' above 10, 'down' below -10, else 'stable'; so the result
\* is the class of (last price - first price) / (count - 1).
C23_TrendDirection ==
    fout # << >> =>
        /\ Len(fin) < 2 => fout[1] = "stable"
        /\ ( /\ Len(fin) >= 2
             /\ ~fin[OldestRow].modal_price.nan
             /\ ~fin[NewestRow].modal_price.nan ) =>
               fout[1] = DirectionOf(fin[NewestRow].modal_price.v
                                       - fin[OldestRow].modal_price.v,
                                     Len(fin) - 1)

\* C24: the fetches of a run are made for strictly ascending dates; when a
\* full sync has made its fetches they were for exactly 7 dates, the last
\* of them the current day, and when an incremental sync has made its
\* fetch it was for the current day only.
C24_FullSyncWindow ==
    /\ \A k \in 1..(Len(requested) - 1) :
          strptime(requested[k]) < strptime(requested[k + 1])
    /\ (pc = "process" /\ sync_type = "full") =>
          /\ Len(requested) = 7
          /\ requested[Len(requested)] = strftime(today)
    /\ (pc = "process" /\ sync_type = "incremental") =>
          requested = << strftime(today) >>

\* C25: a record that fails normalization, or whose upsert raises a
\* database error, does not end the run and is counted neither as inserted
\* nor as updated, and the loop goes on to every record after it: the loop
\* is left only for the trend pass, and only when no record is left.
C25_FailureIsolation ==
    [][ pc = "process" =>
          /\ pc' \in {"process", "trends"}
          /\ pc' = "trends" => i > Len(all_records)
          /\ ( /\ i' = i + 1
               /\ \/ _clean_record(all_records[i]) = << >>
                  \/ faults' > faults ) =>
                inserted' = inserted /\ updated' = updated ]_vars

\* C26: while a fetch runs, the offset of its next request is the page
\* size times the number of pages it has received, all of them non-empty,
\* and its records are those pages in the order received; a fetch that
\* ended without a failed request ended on an empty page and returns those
\* records; every fetch ends, and so does every invocation.
C26_PaginationTerminates ==
    /\ [](pc \in {"fetch", "fetch_done"} =>
            /\ offset = PageLimit * Len(feedPages)
            /\ \A k \in DOMAIN feedPages : feedPages[k] # << >>
            /\ fetch_records = Flatten(feedPages)
            /\ (pc = "fetch_done" /\ ~feedFailed) => fetched = "return")
    /\ (pc = "fetch") ~> (pc = "fetch_done")
    /\ (pc # "idle") ~> (pc = "idle")

\* a fetch was served two pages and then an empty one
C26_Witness ==
    /\ pc = "fetch_done"
    /\ ~feedFailed
    /\ Len(feedPages) = 2
    /\ offset = 2 * PageLimit
    /\ fetched = "return"
    /\ Len(fetch_records) = 2

\* C27: every stored row of market_prices has min_price, max_price and
\* modal_price of 0 or more, so a record with a negative min_price or
\* max_price is never stored with that value.
C27_NonNegativePrices ==
    \A k \in DOMAIN prices :
        /\ FGe(prices[k].min_price, F(0))
        /\ FGe(prices[k].max_price, F(0))
        /\ FGe(prices[k].modal_price, F(0))

\* the rows of the commodity of the row k that are inside the trailing
\* window of TrendWindowDays days
WindowOf(table, k) ==
    { m \in DOMAIN table :
        /\ table[m].commodity = table[k].commodity
        /\ table[m].arrival_date >= today - TrendWindowDays + 1 }

\* the rows a and b differ in nothing but the three trend fields
SameButTrend(a, b) ==
    [ a EXCEPT !.price_change = b.price_change,
               !.percentage_change = b.percentage_change,
               !.trend = b.trend ] = b

\* a pass over the table may read the row m right after the row k
MayFollow(table, k, m) ==
    /\ m # k
    /\ k \in WindowOf(table, k)
    /\ m \in WindowOf(table, k)
    /\ table[m].arrival_date <= table[k].arrival_date
    /\ \A r \in WindowOf(table, k) :
          \/ table[r].arrival_date <= table[m].arrival_date
          \/ table[r].arrival_date >= table[k].arrival_date

\* the row k already holds the trend fields a pass gives it when it reads
\* the row m right after it (for prices that are numbers, the earlier one
\* above 0)
SettledAgainst(table, k, m) ==
    LET current == table[k].modal_price
        previous == table[m].modal_price
    IN (~current.nan /\ ~previous.nan /\ previous.v > 0) =>
          /\ table[k].price_change = F(current.v - previous.v)
          /\ table[k].percentage_change =
                F(RoundDiv(10000 * (current.v - previous.v), previous.v))
          /\ table[k].trend = Classified(current.v, previous.v)

\* C28: a trend pass changes nothing but price_change, percentage_change
\* and trend; it leaves alone every row outside the trailing window, every
\* row of a commodity with fewer than two rows in the window and an oldest
\* row of each window; and a second pass right after it would change
\* nothing, whichever row it reads after each row.
C28_TrendFrame ==
    [][ (pc = "trends" /\ pc' = "log_success") =>
          /\ Len(prices') = Len(prices)
          /\ \A k \in DOMAIN prices :
                /\ SameButTrend(prices[k], prices'[k])
                /\ (k \notin WindowOf(prices, k)
                      \/ Cardinality(WindowOf(prices, k)) < 2) =>
                        prices'[k] = prices[k]
                /\ k \in WindowOf(prices, k) =>
                      \E m \in WindowOf(prices, k) :
                          /\ \A r \in WindowOf(prices, k) :
                                prices[m].arrival_date <= prices[r].arrival_date
                          /\ prices'[m] = prices[m]
                /\ \A m \in DOMAIN prices :
                      MayFollow(prices', k, m) => SettledAgainst(prices', k, m) ]_vars

\* the 'success' entries the running invocation has written
SuccessRowsOfRun == { k \in RowsOfRun : syncLog[k].status = "success" }

\* C29: in every 'success' entry the inserts and updates together are no
\* more than the records processed, records_processed is the number of
\* records the run's fetches returned, records_inserted is the number of
\* rows market_prices has gained since the run started, and the counts the
\* caller gets are those of the entry.
C29_CounterConsistency ==
    \A k \in SuccessRowsOfRun :
        /\ syncLog[k].records_inserted + syncLog[k].records_updated
              <= syncLog[k].records_processed
        /\ syncLog[k].records_processed = Len(delivered)
        /\ syncLog[k].records_inserted = Len(prices) - rowsAtStart
        /\ (pc = "idle" /\ outcome.kind = "return") =>
              /\ outcome.result[1].processed = syncLog[k].records_processed
              /\ outcome.result[1].inserted = syncLog[k].records_inserted
              /\ outcome.result[1].updated = syncLog[k].records_updated

\* C30: the step of the upsert loop that updates, when no database error
\* strikes in it, leaves market_prices with the same rows but one, a row of
\* the incoming record's identity; of that row it writes the three prices,
\* variety and grade from the record and updated_at from the clock, and it
\* leaves the identity fields, price_change, percentage_change, trend,
\* created_at and is_active as they were.
C30_UpdateFrame ==
    [][ (pc = "process" /\ updated' = updated + 1 /\ faults' = faults) =>
          LET cleaned == upserts'[Len(upserts')].cleaned IN
          /\ Len(prices') = Len(prices)
          /\ \E k \in DOMAIN prices :
                /\ IdentityOf(prices[k]) = IdentityOf(cleaned)
                /\ \A m \in DOMAIN prices : m # k => prices'[m] = prices[m]
                /\ IdentityOf(prices'[k]) = IdentityOf(prices[k])
                /\ prices'[k].price_change = prices[k].price_change
                /\ prices'[k].percentage_change = prices[k].percentage_change
                /\ prices'[k].trend = prices[k].trend
                /\ prices'[k].created_at = prices[k].created_at
                /\ prices'[k].is_active = prices[k].is_active
                /\ prices'[k].min_price = cleaned.min_price
                /\ prices'[k].max_price = cleaned.max_price
                /\ prices'[k].modal_price = cleaned.modal_price
                /\ prices'[k].variety = cleaned.variety
                /\ prices'[k].grade = cleaned.grade
                /\ prices'[k].updated_at = today ]_vars

\* a row inserted at 100 and marked 'up' by 3 against another market has
\* been updated a day later to 103 with an empty grade: it keeps the change
\* of 3, the mark and its created_at, and the other row is as committed
C30_Witness ==
    /\ pc = "process"
    /\ upserts # << >>
    /\ upserts[Len(upserts)].result = "updated"
    /\ Len(prices) = 2
    /\ prices[1].modal_price = F(103)
    /\ prices[1].grade = ""
    /\ prices[1].price_change = F(3)
    /\ prices[1].trend = "up"
    /\ prices[1].created_at = FirstDay
    /\ prices[1].updated_at = FirstDay + 1
    /\ committedPrices[1].modal_price = F(100)
    /\ prices[2] = committedPrices[2]
====
